---- MODULE Spec2Model ----
(***************************************************************************)
(* goinsane/rapi: the server side dispatch / middleware / send pipeline    *)
(* (Handler, patternHandler, methodHandler) and its option cascade.        *)
(*                                                                         *)
(* A Go nil is the value Nil.  Function values (middlewares, terminal      *)
(* handlers) are named by strings; what a middleware or handler does when  *)
(* it runs is user code: the calls of send and next it makes, in order,    *)
(* chosen when it is invoked.  A panic ends the operation that raised it   *)
(* and is recorded (lastCall.result at setup, panicMsg while serving).     *)
(***************************************************************************)
EXTENDS Integers, Sequences, FiniteSets, TLC

Nil == "nil"

(* ------------------------------------------------------------------ *)
(* Bounds of the model                                                 *)
(* ------------------------------------------------------------------ *)

\* method handlers (and pattern handlers) that setup may allocate
MaxObjs == 3

(* ------------------------------------------------------------------ *)
(* handlerOptions and HandlerOption                                    *)
(* ------------------------------------------------------------------ *)

\* The heap of the setup code: the handlerOptions structs and the backing
\* arrays of their Middlewares slices.  A pointer is an index into opts, an
\* array is named by its index in arrs (0: nil, no array).
NewHeap == [opts |-> << >>, arrs |-> << >>]

\* a slice header: backing array, length, capacity; the nil slice
SliceOf(arr, len, cap) == [arr |-> arr, len |-> len, cap |-> cap]
NilSlice == SliceOf(0, 0, 0)

\* the elements of a slice
Elems(hp, sl) == IF sl.arr = 0 THEN << >> ELSE SubSeq(hp.arrs[sl.arr], 1, sl.len)

\* capacities the allocator hands out for slices of func values
SizeClasses == {1, 2, 3, 4, 6, 8, 10, 12, 14, 16}

\* the capacity append grows a full slice to: the length needed if that is more
\* than double the old capacity, else double, rounded up to a size class
GrowCap(oldCap, newLen) ==
    LET want == IF newLen > 2 * oldCap THEN newLen ELSE 2 * oldCap
    IN  CHOOSE c \in SizeClasses :
            c >= want /\ \A d \in SizeClasses : d >= want => c <= d

\* append(sl, ms...): in place when the capacity allows, else into a new array
AppendSlice(hp, sl, ms) ==
    IF ms = << >> THEN [heap |-> hp, slice |-> sl]
    ELSE IF sl.len + Len(ms) <= sl.cap
    THEN [heap  |-> [hp EXCEPT !.arrs[sl.arr] =
                        [i \in 1..sl.cap |->
                            IF i > sl.len /\ i <= sl.len + Len(ms)
                            THEN ms[i - sl.len] ELSE @[i]]],
          slice |-> SliceOf(sl.arr, sl.len + Len(ms), sl.cap)]
    ELSE LET all == Elems(hp, sl) \o ms
             c   == GrowCap(sl.cap, Len(all))
         IN  [heap  |-> [hp EXCEPT !.arrs =
                            Append(@, [i \in 1..c |-> IF i <= Len(all) THEN all[i] ELSE Nil])],
              slice |-> SliceOf(Len(hp.arrs) + 1, Len(all), c)]

\* make([]MiddlewareFunc, n) followed by copy(result, src)
MakeCopy(hp, src) ==
    IF src = << >> THEN [heap |-> hp, slice |-> NilSlice]
    ELSE [heap  |-> [hp EXCEPT !.arrs = Append(@, src)],
          slice |-> SliceOf(Len(hp.arrs) + 1, Len(src), Len(src))]

\* &handlerOptions{...}: a new struct on the heap
NewOptions(hp, o) == [heap |-> [hp EXCEPT !.opts = Append(@, o)], ptr |-> Len(hp.opts) + 1]

newHandlerOptions ==
    [ OnError            |-> FALSE,
      Middlewares        |-> NilSlice,
      MaxRequestBodySize |-> 0,
      ReadTimeout        |-> 0,
      WriteTimeout       |-> 0,
      AllowEncoding      |-> TRUE,
      OptionsHandler     |-> FALSE,
      NotFoundHandler    |-> FALSE ]

\* a Clone that copies the struct, slice header included: result := *o
CloneShallow(hp, p) == NewOptions(hp, hp.opts[p])

\* handlerOptions.Clone: a new struct, the middlewares copied into a new array
Clone(hp, p) ==
    LET o  == hp.opts[p]
        mk == MakeCopy(hp, Elems(hp, o.Middlewares))
    IN  NewOptions(mk.heap,
            [ OnError            |-> o.OnError,
              Middlewares        |-> mk.slice,
              MaxRequestBodySize |-> o.MaxRequestBodySize,
              ReadTimeout        |-> o.ReadTimeout,
              WriteTimeout       |-> o.WriteTimeout,
              AllowEncoding      |-> o.AllowEncoding,
              OptionsHandler     |-> o.OptionsHandler,
              NotFoundHandler    |-> o.NotFoundHandler ])

\* A HandlerOption value: which With... built it and its argument
\* (b: a flag or "is not nil", n: a size or duration, ms: middlewares).
OptionOf(name, b, n, ms) == [opt |-> name, b |-> b, n |-> n, ms |-> ms]

WithOnError            == OptionOf("OnError", TRUE, 0, << >>)
WithMiddleware(ms)     == OptionOf("Middleware", FALSE, 0, ms)
WithMaxRequestBodySize(n) == OptionOf("MaxRequestBodySize", FALSE, n, << >>)
WithReadTimeout(n)     == OptionOf("ReadTimeout", FALSE, n, << >>)
WithWriteTimeout(n)    == OptionOf("WriteTimeout", FALSE, n, << >>)
WithAllowEncoding(b)   == OptionOf("AllowEncoding", b, 0, << >>)
WithOptionsHandler     == OptionOf("OptionsHandler", TRUE, 0, << >>)
WithNotFoundHandler    == OptionOf("NotFoundHandler", TRUE, 0, << >>)

\* funcHandlerOption.apply for each With... constructor: the struct p points to
\* is changed in place
applyOption(hp, p, opt) ==
    CASE opt.opt = "OnError"            -> [hp EXCEPT !.opts[p].OnError = opt.b]
      [] opt.opt = "Middleware"         ->
            LET a == AppendSlice(hp, hp.opts[p].Middlewares, opt.ms)
            IN  [a.heap EXCEPT !.opts[p].Middlewares = a.slice]
      [] opt.opt = "MaxRequestBodySize" -> [hp EXCEPT !.opts[p].MaxRequestBodySize = opt.n]
      [] opt.opt = "ReadTimeout"        -> [hp EXCEPT !.opts[p].ReadTimeout = opt.n]
      [] opt.opt = "WriteTimeout"       -> [hp EXCEPT !.opts[p].WriteTimeout = opt.n]
      [] opt.opt = "AllowEncoding"      -> [hp EXCEPT !.opts[p].AllowEncoding = opt.b]
      [] opt.opt = "OptionsHandler"     -> [hp EXCEPT !.opts[p].OptionsHandler = opt.b]
      [] opt.opt = "NotFoundHandler"    -> [hp EXCEPT !.opts[p].NotFoundHandler = opt.b]

\* joinHandlerOption.apply: the options in the order given
RECURSIVE applyJoin(_, _, _)
applyJoin(hp, p, opts) ==
    IF opts = << >> THEN hp
    ELSE applyJoin(applyOption(hp, p, Head(opts)), p, Tail(opts))

(* ------------------------------------------------------------------ *)
(* Input prototypes and copyReflectValue                               *)
(* ------------------------------------------------------------------ *)

\* A prototype value handed to Register: untyped nil, or a value / pointer of
\* some kind.  json tells how encoding/json treats the value: "ok", "marshal"
\* (json.Marshal fails: a chan, a func) or "unmarshal" (json.Marshal succeeds
\* and json.Unmarshal of its result into a new value of the type fails: a struct
\* with a non-nil field of type error, which marshals to {"E":{}}).
ProtoOf(kind, ptr, isnil) ==
    [kind |-> kind, ptr |-> ptr, isnil |-> isnil,
     json |-> IF kind = "chan" THEN "marshal" ELSE "ok"]
NilProto       == ProtoOf("invalid", FALSE, TRUE)
StructProto    == ProtoOf("struct", FALSE, FALSE)
StructPtrProto == ProtoOf("struct", TRUE, FALSE)
NilStructPtrProto == ProtoOf("struct", TRUE, TRUE)
StringProto    == ProtoOf("string", FALSE, FALSE)
ChanProto      == ProtoOf("chan", FALSE, FALSE)
ErrFieldProto    == [ProtoOf("struct", FALSE, FALSE) EXCEPT !.json = "unmarshal"]
ErrFieldPtrProto == [ProtoOf("struct", TRUE, FALSE) EXCEPT !.json = "unmarshal"]

\* copyReflectValue: always a pointer; elem is the kind it points to.  The
\* untyped nil gives a new interface{} and a nil pointer a new zero value,
\* both without touching JSON; any other value is marshalled and the result
\* unmarshalled into a new value of its type, and err tells which of the two
\* failed (Nil: neither).
copyReflectValue(in) ==
    LET err == IF in.kind = "invalid" THEN Nil
               ELSE IF in.ptr /\ in.isnil THEN Nil
               ELSE IF in.json = "marshal" THEN "json marshal error"
               ELSE IF in.json = "unmarshal" THEN "json unmarshal error"
               ELSE Nil
    IN  [err  |-> err # Nil,
         elem |-> IF in.kind = "invalid" THEN "interface" ELSE in.kind]

(* ------------------------------------------------------------------ *)
(* Setup state                                                         *)
(* ------------------------------------------------------------------ *)

VARIABLES
    heap,       \* the handlerOptions structs and middleware arrays allocated
    hOptions,   \* Handler.options (a pointer into heap.opts)
    serveMux,   \* Handler.serveMux: pattern -> patternHandler or NilHandler
    nextId,     \* allocation counter: identity of handler objects
    lastCall    \* the last Handle / Register call and how it ended

setupVars == <<heap, hOptions, serveMux, nextId, lastCall>>

\* *p for a *handlerOptions, and the middlewares of the struct it points to
Deref(p) == heap.opts[p]
MiddlewaresOf(p) == Elems(heap, heap.opts[p].Middlewares)

VARIABLES
    req,        \* the request being served: method, path, how it was bound, In
    phase,      \* "idle", "pattern" (the pattern handler is called), "method" (the
                \* method handler is called), "read" (Decode reads the body),
                \* "bound" (req.In is assigned, the chain is not entered yet),
                \* "chain" (the middleware chain runs), "done", "panic"
    cur,        \* the methodHandler the request was dispatched to
    sent,       \* the sent flag of the request (int32, 0 or 1)
    stack,      \* call stack of the chain: one frame per running middleware / handler
    inSend,     \* the top frame is inside send, waiting on <-respCtx.Done()
    w,          \* the response writer
    errs,       \* errors handed to the OnError callback, in order
    panicMsg,   \* the panic that ended the request (Nil if none)
    wr,         \* write goroutine of send: "none", "copy", "close", "done"
    tm,         \* write deadline goroutine of send: "none", "wait", "fired", "done"
    respDone,   \* respCtx is cancelled
    pending,    \* what the write goroutine writes: transform, level, data
    hist        \* what happened so far in this request (see NoHist)

reqVars == <<req, phase, cur, sent, stack, inSend, w, errs, panicMsg, wr, tm,
             respDone, pending, hist>>

VARIABLES
    binder,     \* a run of the field binder: valuesToStruct / structToValues
    client,     \* a Caller and the Call it is making
    workers,    \* goroutines a middleware or handler started to call send, each
                \* "ready", "won" (it has set sent), "sent" or "rejected"
    guard,      \* the read deadline goroutine of the request (see NoGuard)
    inputs      \* a registered input prototype and the inputs of the requests
                \* bound from their query strings (see NoInputs)

libVars == <<binder, client, workers, guard, inputs>>

vars == <<heap, hOptions, serveMux, nextId, lastCall, req, phase, cur, sent, stack, inSend,
          w, errs, panicMsg, wr, tm, respDone, pending, hist, binder, client, workers, guard,
          inputs>>


\* keys a method table can hold
TableKeys == {"", "GET", "HEAD", "POST", "PUT", "PATCH", "DELETE", "OPTIONS", "TRACE"}

\* strings.ToUpper on the method names used here
ToUpper(s) ==
    CASE s = "get"  -> "GET"
      [] s = "post" -> "POST"
      [] s = "head" -> "HEAD"
      [] OTHER      -> s

\* a nil *methodHandler / *patternHandler
NilHandler == [id |-> 0]

\* newMethodhandler
newMethodhandler(hp, id, in, do, options, opts) ==
    LET c == Clone(hp, options)
    IN  [heap |-> applyJoin(c.heap, c.ptr, opts),
         h    |-> [id |-> id, options |-> c.ptr, in |-> in, do |-> do]]

\* newPatternHandler
newPatternHandler(hp, id, options, opts) ==
    LET c == Clone(hp, options)
    IN  [heap |-> applyJoin(c.heap, c.ptr, opts),
         h    |-> [id |-> id, options |-> c.ptr,
                   methodHandlers |-> [m \in TableKeys |-> NilHandler]]]

\* a switch whose struct check covers GET alone
NeedsStructGetOnly(method) == method = "GET"

\* patternHandler.Register, the switch on the method: does the input have to be a struct
NeedsStruct(method) == method \in {"", "GET", "DELETE"}

\* a switch that lets HEAD through as well
MethodAllowedWithHead(method) ==
    method \in {"", "GET", "DELETE", "POST", "PUT", "PATCH", "HEAD"}

\* patternHandler.Register, the switch on the method: the accepted methods
MethodAllowed(method) == method \in {"", "GET", "DELETE", "POST", "PUT", "PATCH"}

\* a Register that never finds the method bound
IsRegisteredNever(mhs, method) == FALSE

\* patternHandler.Register: mh := h.methodHandlers[method]; mh != nil
IsRegistered(mhs, method) == mhs[method] # NilHandler

\* a Register that binds the method alone
BindMethodNoAlias(mhs, method, mh) ==
    [k \in TableKeys |-> IF k = method THEN mh ELSE mhs[k]]

\* patternHandler.Register: the table after binding mh (GET also binds HEAD)
BindMethod(mhs, method, mh) ==
    [k \in TableKeys |->
        IF k = method \/ (method = "GET" /\ k = "HEAD") THEN mh ELSE mhs[k]]

\* patternHandler.Register as a function of the pattern handler and the arguments:
\* the panic raised (Nil if none) and the method table afterwards
RegisterResult(hp, ph, method0, in, do, opts, id) ==
    LET cp     == copyReflectValue(in)
        method == ToUpper(method0)
        same   == [panic |-> Nil, methodHandlers |-> ph.methodHandlers, heap |-> hp]
        mh     == newMethodhandler(hp, id, in, do, ph.options, opts)
    IN  IF cp.err
            THEN [same EXCEPT !.panic = "unable to copy input"]
        ELSE IF NeedsStruct(method) /\ cp.elem # "struct"
            THEN [same EXCEPT !.panic = "input must be struct or struct pointer"]
        ELSE IF ~MethodAllowed(method)
            THEN [same EXCEPT !.panic = "method not allowed"]
        ELSE IF IsRegistered(ph.methodHandlers, method)
            THEN [same EXCEPT !.panic = "method already registered"]
        ELSE [panic |-> Nil,
              methodHandlers |-> BindMethod(ph.methodHandlers, method, mh.h),
              heap |-> mh.heap]

\* lastCall: the call, the id bound under its key before it (prior, 0: none), the
\* id of the handler it created (ret, 0: none) and "ok" or the panic it raised
NoCall == [op |-> "none", pattern |-> Nil, method |-> Nil, in |-> NilProto,
           opts |-> << >>, prior |-> 0,
           ret |-> 0, result |-> Nil]

MaxOf(S) == CHOOSE x \in S : \A y \in S : y <= x

\* the pointers to handlerOptions that the Handler, a pattern handler or a
\* method handler holds
Scopes(mux, root) ==
    {root}
    \cup {mux[p].options : p \in {q \in DOMAIN mux : mux[q] # NilHandler}}
    \cup UNION { {mux[p].methodHandlers[k].options :
                    k \in {m \in TableKeys : mux[p].methodHandlers[m] # NilHandler}} :
                 p \in {q \in DOMAIN mux : mux[q] # NilHandler} }

\* the heap without the structs and arrays allocated last that nothing refers
\* to any more (what a panicking call had allocated is garbage)
Trim(hp, mux, root) ==
    LET ptrs == {p \in Scopes(mux, root) : p <= Len(hp.opts)}
        arrs == {hp.opts[p].Middlewares.arr : p \in ptrs}
    IN  [opts |-> SubSeq(hp.opts, 1, MaxOf(ptrs \cup {0})),
         arrs |-> SubSeq(hp.arrs, 1, MaxOf(arrs \cup {0}))]

\* Handler.Handle(pattern, opts...): a new patternHandler is built and handed to
\* http.ServeMux.Handle, which panics when the pattern is registered already.
Handle(pattern, opts) ==
    LET n  == newPatternHandler(heap, nextId, hOptions, opts)
        ph == n.h
        dup == serveMux[pattern] # NilHandler
    IN  /\ dup \/ nextId <= MaxObjs
        /\ serveMux' = IF dup THEN serveMux ELSE [serveMux EXCEPT ![pattern] = ph]
        /\ heap' = Trim(n.heap, serveMux', hOptions)
        /\ nextId' = IF dup THEN nextId ELSE nextId + 1
        /\ lastCall' = [op |-> "Handle", pattern |-> pattern, method |-> Nil,
                        in |-> NilProto,
                        opts |-> opts,
                        prior |-> serveMux[pattern].id,
                        ret |-> IF dup THEN 0 ELSE nextId,
                        result |-> IF dup THEN "http: multiple registrations" ELSE "ok"]
        /\ UNCHANGED hOptions
        /\ UNCHANGED reqVars
        /\ UNCHANGED libVars

\* Registrar.Register(method, in, do, opts...) on the registrar of a pattern
Register(pattern, method, in, do, opts) ==
    LET ph == serveMux[pattern]
        r  == RegisterResult(heap, ph, method, in, do, opts, nextId)
    IN  /\ ph # NilHandler
        /\ r.panic # Nil \/ nextId <= MaxObjs
        /\ heap' = r.heap
        /\ serveMux' = [serveMux EXCEPT ![pattern].methodHandlers = r.methodHandlers]
        /\ nextId' = IF r.panic # Nil THEN nextId ELSE nextId + 1
        /\ lastCall' = [op |-> "Register", pattern |-> pattern, method |-> ToUpper(method),
                        in |-> in,
                        opts |-> opts,
                        prior |-> IF ToUpper(method) \in TableKeys
                                    THEN ph.methodHandlers[ToUpper(method)].id ELSE 0,
                        ret |-> IF r.panic # Nil THEN 0 ELSE nextId,
                        result |-> IF r.panic # Nil THEN r.panic ELSE "ok"]
        /\ UNCHANGED hOptions
        /\ UNCHANGED reqVars
        /\ UNCHANGED libVars

(* ------------------------------------------------------------------ *)
(* The response writer (http.ResponseWriter as this layer drives it)    *)
(* ------------------------------------------------------------------ *)

HeaderNames == {"Content-Type", "Content-Length", "Content-Encoding",
                "X-Content-Type-Options", "Connection", "X-Extra"}

\* a response writer nothing was written to; delegated names the foreign
\* http.Handler (OptionsHandler, NotFoundHandler) the request was handed to
NewWriter == [code |-> 0, nWriteHeader |-> 0, header |-> [k \in HeaderNames |-> << >>],
              body |-> << >>, delegated |-> Nil]

HeaderSet(wv, k, v) == [wv EXCEPT !.header[k] = <<v>>]
HeaderAdd(wv, k, v) == [wv EXCEPT !.header[k] = Append(@, v)]
\* a Del that leaves the header as it is
HeaderKeep(wv, k)   == wv
HeaderDel(wv, k)    == [wv EXCEPT !.header[k] = << >>]

\* wv.WriteHeader(code): the first call fixes the status
WriteHeader(wv, code) ==
    [wv EXCEPT !.nWriteHeader = @ + 1, !.code = IF @ = 0 THEN code ELSE @]

\* wv.Write(p): writes the header with status 200 first if none was written
Write(wv, chunk) ==
    LET w1 == IF wv.code = 0 THEN WriteHeader(wv, 200) ELSE wv
    IN  [w1 EXCEPT !.body = Append(@, chunk)]

\* bytes written to the response writer itself, past the encoder
ChunkPlain(enc, level, data) ==
    [enc |-> "identity", level |-> 0, data |-> data, closed |-> FALSE]

\* a run of body bytes as the writer receives it: written through the transform
\* enc at a level; closed once the transform was closed (its stream is complete)
Chunk(enc, level, data) == [enc |-> enc, level |-> level, data |-> data, closed |-> FALSE]

\* http.Error(wv, msg, code)
HttpError(wv, msg, code) ==
    LET w1 == HeaderDel(wv, "Content-Length")
        w2 == HeaderSet(w1, "Content-Type", "text/plain; charset=utf-8")
        w3 == HeaderSet(w2, "X-Content-Type-Options", "nosniff")
    IN  Write(WriteHeader(w3, code), Chunk("identity", 0, <<msg, "\n">>))

(* ------------------------------------------------------------------ *)
(* JSON serialization of an output and content negotiation             *)
(* ------------------------------------------------------------------ *)

\* outputs handed to send: nil, a string (a sequence of characters), or a value
\* encoding/json cannot serialize (a chan)
OutNil      == [kind |-> "nil", s |-> << >>]
OutString(s) == [kind |-> "string", s |-> s]
OutChan     == [kind |-> "chan", s |-> << >>]

RECURSIVE jsonEscape(_)
jsonEscape(s) ==
    IF s = << >> THEN << >>
    ELSE (IF Head(s) \in {"\"", "\\"} THEN <<"\\", Head(s)>> ELSE <<Head(s)>>)
         \o jsonEscape(Tail(s))

\* json.Marshal(out)
Marshal(out) ==
    CASE out.kind = "nil"    -> [err |-> FALSE, data |-> <<"n", "u", "l", "l">>]
      [] out.kind = "string" -> [err |-> FALSE, data |-> <<"\"">> \o jsonEscape(out.s) \o <<"\"">>]
      [] OTHER               -> [err |-> TRUE, data |-> << >>]

\* One alternative of Accept-Encoding as parseHTTPHeaderOptions yields it: its
\* first key and its q attribute (hasq: present, qok: strconv.ParseFloat
\* succeeds, q10: ten times its value).
Offer(key, hasq, qok, q10) == [key |-> key, hasq |-> hasq, qok |-> qok, q10 |-> q10]

\* a conversion that rounds to the nearest integer
TruncIntRound(q10) == IF q10 >= 0 THEN (q10 + 5) \div 10 ELSE -((5 - q10) \div 10)

\* int(f): truncation toward zero, on ten times the value
TruncInt(q10) == IF q10 >= 0 THEN q10 \div 10 ELSE -((-q10) \div 10)

DefaultCompression == -1
NoCompression == 0
BestCompression == 9

IdentityEncoder == [err |-> Nil, enc |-> "identity", level |-> 0]

\* a negotiation that prefers gzip to deflate wherever they stand
getContentEncoderGzipFirst(offers) ==
    IF \E i \in DOMAIN offers : offers[i].key = "gzip"
    THEN [err |-> Nil, enc |-> "gzip", level |-> DefaultCompression]
    ELSE IF \E i \in DOMAIN offers : offers[i].key = "deflate"
    THEN [err |-> Nil, enc |-> "deflate", level |-> DefaultCompression]
    ELSE IdentityEncoder

\* getContentEncoder: the first gzip or deflate alternative decides; an
\* unparseable q of any alternative met before it is an error
RECURSIVE getContentEncoder(_)
getContentEncoder(offers) ==
    IF offers = << >> THEN IdentityEncoder
    ELSE LET opt == Head(offers) IN
         IF opt.hasq /\ ~opt.qok
            THEN [err |-> "quality level parse error", enc |-> Nil, level |-> 0]
         ELSE IF opt.key \in {"gzip", "deflate"}
            THEN IF opt.hasq
                 THEN IF NoCompression <= TruncInt(opt.q10) /\ TruncInt(opt.q10) <= BestCompression
                      THEN [err |-> Nil, enc |-> opt.key, level |-> TruncInt(opt.q10)]
                      ELSE [err |-> "invalid quality level", enc |-> Nil, level |-> 0]
                 ELSE [err |-> Nil, enc |-> opt.key, level |-> DefaultCompression]
         ELSE getContentEncoder(Tail(offers))

(* ------------------------------------------------------------------ *)
(* Per-request state (methodHandler.ServeHTTP and its send closure)     *)
(* ------------------------------------------------------------------ *)

\* A body, of a request or of a response: its length in bytes and the length
\* of the JSON value it starts with (0: it does not start with a JSON value);
\* the value is an object such as {}, or, for number, a number written with
\* value digits.  broken: the body ends with io.EOF ("none"), or the transport
\* fails after len bytes and Read returns the error together with the last
\* of them ("last") or on the call after them ("next").
BodyOf(len, value) == [len |-> len, value |-> value, number |-> FALSE, broken |-> "none"]
NoBody == BodyOf(0, 0)

\* the body that is one number of len digits, such as 123
NumberBody(len) == [len |-> len, value |-> len, number |-> TRUE, broken |-> "none"]

\* a body whose read fails after len bytes
BrokenBody(len, value, broken) ==
    [len |-> len, value |-> value, number |-> FALSE, broken |-> broken]

\* a reader of the body behind io.LimitReader(body, limit) (limit = 0: the
\* body itself) gets the error of the transport instead of io.EOF: the limit
\* ends the read before the error is returned
ReadFails(body, limit) ==
    CASE body.broken = "none" -> FALSE
      [] body.broken = "next" -> limit = 0 \/ limit > body.len
      [] body.broken = "last" -> limit = 0 \/ limit >= body.len

\* req.In before methodHandler.ServeHTTP assigns it
NoIn == [set |-> FALSE, proto |-> NilProto, ptr |-> FALSE, from |-> Nil]

\* req.In = in: the copy of the input prototype proto that was bound from the
\* query string or from the body, handed over as a pointer when the
\* prototype is one and as the value the copy points to otherwise
InOf(proto, from) ==
    [set |-> TRUE, proto |-> proto, ptr |-> proto.kind # "invalid" /\ proto.ptr,
     from |-> from]

\* no request: ct is its Content-Type header, queryOK whether valuesToStruct
\* accepts its query string, bound how the input was bound ("query", "body"),
\* In the field In of the Request handed to the chain
NoReq == [method |-> Nil, path |-> Nil, star |-> FALSE, proto11 |-> TRUE,
          ct |-> [media |-> "", charset |-> ""],
          queryOK |-> TRUE, body |-> NoBody, bound |-> Nil, In |-> NoIn]

NoPending == [enc |-> "identity", level |-> 0, data |-> << >>]

\* ran: the positions of the chain (indexes of the do slice) that were started;
\* nexted: the positions that called next; sender: the position whose send
\* call won the sent flag (0: none); sendCalls: calls of send; out, code, extras:
\* the arguments of the winning send call; offers: the Accept-Encoding it saw;
\* enc: the transform it selected (Nil: none, the negotiation failed); werr: a
\* write to the response writer failed
NoHist == [ran |-> {}, nexted |-> {}, sender |-> 0, sendCalls |-> 0, out |-> OutNil,
           code |-> 0, extras |-> << >>, offers |-> << >>, enc |-> Nil, werr |-> FALSE]

\* handlerOptions.PerformError
PerformError(options, msg, es) == IF options.OnError THEN Append(es, msg) ELSE es

\* a send without the compare-and-swap on sent
SendAllowedAlways(sentv) == TRUE

\* send: if !atomic.CompareAndSwapInt32(&sent, 0, 1) { panic }
SendAllowed(sentv) == sentv = 0

\* a send without the early return for HEAD
WritesBodyAlways(method) == TRUE

\* send: if r.Method == http.MethodHead { return } -- the body is written otherwise
WritesBody(method) == method # "HEAD"

\* send: for _, hdr := range headers { ... w.Header().Add(k, v2) }
RECURSIVE MergeHeaders(_, _)
MergeHeaders(wv, extras) ==
    IF extras = << >> THEN wv
    ELSE MergeHeaders(HeaderAdd(wv, Head(extras)[1], Head(extras)[2]), Tail(extras))

\* The body of send after the sent flag was won, up to the point where the body
\* write starts: the writer, the error reported, the panic raised, whether the
\* write goroutines are started, and what they write.
SendResult(options, method, offers, out, code, extras, wv) ==
    LET ce == IF options.AllowEncoding THEN getContentEncoder(offers) ELSE IdentityEncoder
    IN  IF ce.err # Nil
        THEN [w |-> HttpError(wv, "invalid accept encoding", 400),
              perr |-> "unable to get content encoder", panic |-> Nil, spawn |-> FALSE,
              enc |-> Nil, level |-> 0, data |-> << >>]
        ELSE
        LET w0 == IF ce.enc # "identity" THEN HeaderSet(wv, "Content-Encoding", ce.enc) ELSE wv
            js == Marshal(out)
        IN  IF js.err
            THEN [w |-> w0, perr |-> Nil, panic |-> "unable to encode output",
                  spawn |-> FALSE, enc |-> ce.enc, level |-> ce.level, data |-> << >>]
            ELSE
            LET data == Append(js.data, "\n")
                w1 == MergeHeaders(w0, extras)
                w2 == HeaderSet(w1, "Content-Type", "application/json; charset=utf-8")
                w3 == IF ce.enc = "identity"
                      THEN HeaderSet(w2, "Content-Length", ToString(Len(data)))
                      ELSE HeaderDel(w2, "Content-Length")
            IN  [w |-> WriteHeader(w3, code), perr |-> Nil, panic |-> Nil,
                 spawn |-> WritesBody(method), enc |-> ce.enc, level |-> ce.level,
                 data |-> data]

(* ------------------------------------------------------------------ *)
(* The middleware chain                                                *)
(* ------------------------------------------------------------------ *)

\* the loop that appends one wrapper per middleware, last middleware first;
\* the wrapper appended at length l calls do[l-1] (0-based), i.e. the slot before it
RECURSIVE chainLoop(_, _, _)
chainLoop(do, mws, i) ==
    IF i < 1 THEN do
    ELSE chainLoop(Append(do, [fn |-> mws[i], next |-> Len(do)]), mws, i - 1)

\* a do slice built by a loop that runs over the middlewares first to last, so
\* that the entry point wraps the last middleware
BuildDoForward(mws, h) ==
    [i \in 1..(Len(mws) + 1) |->
        IF i = 1 THEN [fn |-> h, next |-> 0] ELSE [fn |-> mws[i - 1], next |-> i - 1]]

\* the do slice of methodHandler.ServeHTTP: slot 1 wraps the terminal handler,
\* the last slot is the entry point
BuildDo(mws, h) == chainLoop(<<[fn |-> h, next |-> 0]>>, mws, Len(mws))

\* a wrapper that tests m != nil alone
ChainGuardNoSent(sentv, fn) == fn # Nil

\* each wrapper: if sent == 0 && m != nil { ... }
ChainGuard(sentv, fn) == sentv = 0 /\ fn # Nil

\* a running middleware or handler: its slot, the function, and the calls
\* ("send", "next") it still makes before it returns
Frame(d, fn, prog) == [d |-> d, fn |-> fn, todo |-> prog]

\* the stack after slot d of the chain is invoked (prog: what the function does)
Invoke(stk, do, d, sentv, prog) ==
    IF ChainGuard(sentv, do[d].fn) THEN Append(stk, Frame(d, do[d].fn, prog)) ELSE stk

\* a chain run as a loop: a middleware that returns without having called next
\* is followed by the function of the slot after it
ReturnFromFallThrough(stk) ==
    LET t    == stk[Len(stk)]
        rest == SubSeq(stk, 1, Len(stk) - 1)
        do   == BuildDo(MiddlewaresOf(cur.options), cur.do)
    IN  IF t.d > 1 /\ t.d \notin hist.nexted
        THEN Append(rest, Frame(t.d - 1, do[t.d - 1].fn, << >>))
        ELSE rest

\* the stack after the running middleware or handler returns
ReturnFrom(stk) == SubSeq(stk, 1, Len(stk) - 1)

CurDo == BuildDo(MiddlewaresOf(cur.options), cur.do)

Top == stack[Len(stack)]

\* the top frame has made its next call
Bump(stk) == [stk EXCEPT ![Len(stk)].todo = Tail(@)]

\* what a function in slot d can do: the terminal handler (slot 1) has no next
ProgramsOf(progs, d) ==
    {pr \in progs : d > 1 \/ \A i \in DOMAIN pr : pr[i] # "next"}

Started(h, stk) == [h EXCEPT !.ran = @ \cup {stk[i].d : i \in DOMAIN stk}]

(* ------------------------------------------------------------------ *)
(* Dispatch and binding: Handler.ServeHTTP, patternHandler.ServeHTTP,  *)
(* methodHandler.ServeHTTP up to the start of the chain                *)
(* ------------------------------------------------------------------ *)

\* A Content-Type header: media "" is no header, "<malformed>" one that
\* mime.ParseMediaType rejects; charset "" is no charset parameter.
ContentType(media, charset) == [media |-> media, charset |-> charset]

\* strings.ToLower on the media types and charsets used here
ToLower(s) ==
    CASE s = "APPLICATION/JSON" -> "application/json"
      [] s = "UTF-8"            -> "utf-8"
      [] OTHER                  -> s

\* a validation that takes any charset
validateContentTypeAnyCharset(ct, validMediaTypes) ==
    IF ct.media = "<malformed>" THEN "media type parse error"
    ELSE IF ToLower(ct.media) \notin validMediaTypes THEN "invalid media type"
    ELSE Nil

\* validateContentType(contentType, validMediaTypes...): the error, Nil if none
validateContentType(ct, validMediaTypes) ==
    IF ct.media = "<malformed>" THEN "media type parse error"
    ELSE IF ToLower(ct.media) \notin validMediaTypes THEN "invalid media type"
    ELSE IF ct.charset # "" /\ ToLower(ct.charset) \notin {"ascii", "utf-8"}
         THEN "invalid charset"
    ELSE Nil

\* a root handler that sends every method to the route table
RootRouteAllMux(method) == "mux"

\* Handler.ServeHTTP, the switch on r.Method
RootRoute(method) ==
    CASE method \in {"HEAD", "GET", "POST", "PUT", "PATCH", "DELETE"} -> "mux"
      [] method = "OPTIONS" -> "options"
      [] OTHER -> "notallowed"

\* a lookup that prefers the method-agnostic handler
LookupMethodAnyFirst(mhs, method) ==
    IF mhs[""] # NilHandler THEN mhs[""] ELSE mhs[method]

\* patternHandler.ServeHTTP: the exact method, else the method-agnostic handler
LookupMethod(mhs, method) ==
    IF mhs[method] # NilHandler THEN mhs[method] ELSE mhs[""]

\* h.serveMux.Handler(r): the pattern handler registered for the path, if any
MuxHandler(mux, path) ==
    IF path \in DOMAIN mux THEN mux[path] ELSE NilHandler

\* where a step of the three ServeHTTP methods leaves the request: the phase,
\* the response writer, the errors reported, the method handler it is with,
\* how its input was bound, the panic raised and req.In
Outcome(ph, wv, es, mh, bound, pn) ==
    [phase |-> ph, w |-> wv, errs |-> es, cur |-> mh, bound |-> bound, panic |-> pn,
     In |-> IF ph = "bound" THEN InOf(mh.in, bound) ELSE NoIn]

\* a decoder that reads the whole body whatever the limit
DecodeBodyUnlimited(body, limit, elem) == body.value > 0

\* json.NewDecoder(rd).Decode(in) with rd the body, behind io.LimitReader when
\* limit > 0, and in a pointer to a value of the kind elem.  The decoder
\* returns the first JSON value once it has read it, and fails when the bytes
\* it can read end before that; the digits of a number that io.EOF cuts are a
\* number, and it returns that one, while an error of the transport after
\* the digits is the error Decode returns.  An object is decoded into a
\* struct or an interface{}, a number into an interface{}.
DecodeBody(body, limit, elem) ==
    LET n == IF limit > 0 /\ limit < body.len THEN limit ELSE body.len
    IN  /\ body.value > 0
        /\ IF body.number THEN n >= 1 /\ ~ReadFails(body, limit) ELSE body.value <= n
        /\ elem \in (IF body.number THEN {"interface"} ELSE {"struct", "interface"})

\* a test that sends every GET, HEAD and DELETE to the query string
BindsFromQueryAnyType(method, ct) == method \in {"HEAD", "GET", "DELETE"}

\* methodHandler.ServeHTTP: contentType == "" && (HEAD || GET || DELETE)
BindsFromQuery(method, ct) == ct.media = "" /\ method \in {"HEAD", "GET", "DELETE"}

\* methodHandler.ServeHTTP from the content type check to the call of Decode
\* (an input bound from the body: phase "read") or, for an input bound from the
\* query string, to req.In = in (phase "bound"); queryOK is whether
\* valuesToStruct accepts the query string of the request
MethodServe(mh, method, ct, queryOK) ==
    LET verr  == validateContentType(ct, {"application/json"})
        cp    == copyReflectValue(mh.in)
        query == BindsFromQuery(method, ct)
        bound == IF query THEN "query" ELSE "body"
    IN  IF ct.media # "" /\ verr # Nil
            THEN Outcome("done", HttpError(NewWriter, "invalid content type", 400),
                         PerformError(Deref(mh.options), "invalid content type", << >>),
                         mh, Nil, Nil)
        ELSE IF cp.err
            THEN Outcome("panic", NewWriter, << >>, mh, Nil, "unable to copy input")
        ELSE IF query /\ cp.elem # "struct"
            THEN Outcome("panic", NewWriter, << >>, mh, Nil,
                         "input must be struct or struct pointer")
        ELSE IF query /\ ~queryOK
                 THEN Outcome("done", HttpError(NewWriter, "invalid query", 400),
                              PerformError(Deref(mh.options), "invalid query", << >>),
                              mh, bound, Nil)
        ELSE IF query THEN Outcome("bound", NewWriter, << >>, mh, bound, Nil)
        ELSE Outcome("read", NewWriter, << >>, mh, bound, Nil)

\* a method handler that goes on after Decode whatever Decode returned
DecodeServeIgnoreErr(mh, body, aborted) ==
    Outcome("bound", NewWriter, << >>, mh, "body", Nil)

\* methodHandler.ServeHTTP from the return of Decode to req.In = in (phase
\* "bound"); aborted: Decode failed because the body was closed under it
DecodeServe(mh, body, aborted) ==
    IF aborted \/ ~DecodeBody(body, Deref(mh.options).MaxRequestBodySize,
                              copyReflectValue(mh.in).elem)
    THEN Outcome("done", HttpError(NewWriter, "unable to decode request body", 400),
                 PerformError(Deref(mh.options), "unable to decode request body", << >>),
                 mh, "body", Nil)
    ELSE Outcome("bound", NewWriter, << >>, mh, "body", Nil)

\* patternHandler.ServeHTTP up to the call of mh.ServeHTTP
PatternServe(ph, method) ==
    LET mh == LookupMethod(ph.methodHandlers, method)
    IN  IF mh = NilHandler
        THEN Outcome("done", HttpError(NewWriter, "Method Not Allowed", 405),
                     PerformError(Deref(ph.options), "method not registered", << >>),
                     NilHandler, Nil, Nil)
        ELSE Outcome("method", NewWriter, << >>, mh, Nil, Nil)

\* Handler.ServeHTTP up to the call of handler.ServeHTTP; star: the request
\* URI is "*", proto11: r.ProtoAtLeast(1, 1)
HandlerServe(options, mux, method, path, star, proto11) ==
    LET route == RootRoute(method)
        ph    == MuxHandler(mux, path)
    IN  IF route = "options"
        THEN IF ~options.OptionsHandler
             THEN Outcome("done", HttpError(NewWriter, "Method Not Allowed", 405),
                          PerformError(options, "method handler not defined", << >>),
                          NilHandler, Nil, Nil)
             ELSE Outcome("done", [NewWriter EXCEPT !.delegated = "OptionsHandler"],
                          << >>, NilHandler, Nil, Nil)
        ELSE IF route = "notallowed"
        THEN Outcome("done", HttpError(NewWriter, "Method Not Allowed", 405),
                     PerformError(options, "method not allowed", << >>),
                     NilHandler, Nil, Nil)
        ELSE IF star
        THEN Outcome("done",
                     WriteHeader(IF proto11 THEN HeaderSet(NewWriter, "Connection", "close")
                                 ELSE NewWriter, 400),
                     << >>, NilHandler, Nil, Nil)
        ELSE IF ph = NilHandler
        THEN IF options.NotFoundHandler
             THEN Outcome("done", [NewWriter EXCEPT !.delegated = "NotFoundHandler"],
                          << >>, NilHandler, Nil, Nil)
             ELSE Outcome("done", HttpError(NewWriter, "404 page not found", 404),
                          << >>, NilHandler, Nil, Nil)
        ELSE Outcome("pattern", NewWriter, << >>, NilHandler, Nil, Nil)

\* The goroutine that methodHandler.ServeHTTP starts before it decodes the body
\* when ReadTimeout > 0.  state is its position: "none" (not started), "start"
\* (started, time.After not yet evaluated), "timer" (time.After evaluated, the
\* select not yet entered), "blocked" (parked in the select, no case ready),
\* "close" (the timer case was taken), "exit" (the completed case was taken),
\* "done" (returned).  elapsed: the timer channel is ready; completed: the
\* channel completed is closed; timely: the timer became ready while completed
\* was open; closed: the goroutine has called r.Body.Close(); aborted: Decode
\* failed on the closed body.
NoGuard ==
    [state |-> "none", elapsed |-> FALSE, completed |-> FALSE, timely |-> FALSE,
     closed |-> FALSE, aborted |-> FALSE]

\* the stack of a chain that has just been entered: do[len(do)-1](req, send)
EnterChain(mh, prog) ==
    LET do == BuildDo(MiddlewaresOf(mh.options), mh.do)
    IN  Invoke(<< >>, do, Len(do), 0, prog)

\* One request arrives: Handler.ServeHTTP answers it or finds the pattern
\* handler of its path in the route table and calls it.
Serve(method, path, star, proto11, ct, queryOK, body) ==
    /\ phase = "idle"
    /\ LET r == HandlerServe(Deref(hOptions), serveMux, method, path, star, proto11)
       IN  /\ req' = [method |-> method, path |-> path, star |-> star,
                       proto11 |-> proto11, ct |-> ct,
                       queryOK |-> queryOK, body |-> body, bound |-> r.bound,
                       In |-> r.In]
           /\ phase' = r.phase
           /\ cur' = r.cur
           /\ w' = r.w
           /\ errs' = r.errs
           /\ panicMsg' = r.panic
    /\ stack' = << >>
    /\ hist' = NoHist
    /\ sent' = 0
    /\ inSend' = FALSE
    /\ wr' = "none"
    /\ tm' = "none"
    /\ respDone' = FALSE
    /\ pending' = NoPending
    /\ lastCall' = NoCall
    /\ UNCHANGED <<heap, hOptions, serveMux, nextId>>
    /\ UNCHANGED libVars

\* patternHandler.ServeHTTP: the pattern handler reads its method table, as it
\* is now, and answers 405 or calls the method handler it found.
PatternServeHTTP ==
    /\ phase = "pattern"
    /\ LET r == PatternServe(serveMux[req.path], req.method)
       IN  /\ phase' = r.phase
           /\ cur' = r.cur
           /\ w' = r.w
           /\ errs' = r.errs
    /\ UNCHANGED <<req, sent, stack, inSend, panicMsg, wr, tm, respDone, pending, hist>>
    /\ UNCHANGED setupVars
    /\ UNCHANGED libVars

\* methodHandler.ServeHTTP up to the call of Decode: the content type check,
\* the copy of the input prototype and, for an input bound from the query
\* string, the binding and req.In = in; for an input bound from the body, the
\* go statement of the read deadline when ReadTimeout > 0.  One read deadline
\* goroutine is followed at a time.
MethodServeHTTP ==
    /\ phase = "method"
    /\ LET r     == MethodServe(cur, req.method, req.ct, req.queryOK)
           timed == r.phase = "read" /\ Deref(cur.options).ReadTimeout > 0
       IN  /\ timed => guard.state \in {"none", "done"}
           /\ req' = [req EXCEPT !.bound = r.bound, !.In = r.In]
           /\ phase' = r.phase
           /\ w' = r.w
           /\ errs' = r.errs
           /\ panicMsg' = r.panic
           /\ guard' = IF timed THEN [NoGuard EXCEPT !.state = "start"] ELSE guard
    /\ UNCHANGED <<cur, sent, stack, hist, inSend, wr, tm, respDone, pending>>
    /\ UNCHANGED setupVars
    /\ UNCHANGED <<binder, client, workers, inputs>>

\* methodHandler.ServeHTTP after req.In = in: the do slice is built and its
\* last element, the entry of the chain, is called (prog: what it does)
StartChain(prog) ==
    /\ phase = "bound"
    /\ prog \in ProgramsOf({prog}, Len(BuildDo(MiddlewaresOf(cur.options), cur.do)))
    /\ LET st == EnterChain(cur, prog)
       IN  /\ phase' = "chain"
           /\ stack' = st
           /\ hist' = Started(NoHist, st)
    /\ UNCHANGED <<req, cur, w, errs, panicMsg, sent, inSend, wr, tm, respDone, pending>>
    /\ UNCHANGED setupVars
    /\ UNCHANGED libVars

(* ------------------------------------------------------------------ *)
(* Steps of the chain                                                  *)
(* ------------------------------------------------------------------ *)

Running == phase = "chain" /\ stack # << >> /\ ~inSend

\* The running middleware or handler calls send(out, code, extras...); offers is
\* the request's Accept-Encoding.
CallSend(out, code, extras, offers) ==
    /\ Running
    /\ Top.todo # << >>
    /\ Head(Top.todo) = "send"
    /\ IF ~SendAllowed(sent)
       THEN /\ phase' = "panic"
            /\ panicMsg' = "already sent"
            /\ stack' = << >>
            /\ hist' = [hist EXCEPT !.sendCalls = @ + 1]
            /\ UNCHANGED <<sent, inSend, w, errs, wr, tm, respDone, pending>>
       ELSE LET r == SendResult(Deref(cur.options), req.method, offers, out, code, extras, w)
            IN  /\ sent' = 1
                /\ w' = r.w
                /\ errs' = IF r.perr # Nil THEN PerformError(Deref(cur.options), r.perr, errs)
                           ELSE errs
                /\ hist' = [hist EXCEPT !.sendCalls = @ + 1, !.sender = Top.d,
                                        !.out = out, !.code = code,
                                        !.extras = extras, !.offers = offers,
                                        !.enc = r.enc]
                /\ IF r.panic # Nil
                   THEN /\ phase' = "panic"
                        /\ panicMsg' = r.panic
                        /\ stack' = << >>
                        /\ UNCHANGED <<inSend, wr, tm, respDone, pending>>
                   ELSE /\ stack' = Bump(stack)
                        /\ UNCHANGED <<phase, panicMsg>>
                        /\ IF r.spawn
                           THEN /\ inSend' = TRUE
                                /\ wr' = "copy"
                                /\ tm' = IF Deref(cur.options).WriteTimeout > 0 THEN "wait" ELSE "none"
                                /\ respDone' = FALSE
                                /\ pending' = [enc |-> r.enc, level |-> r.level, data |-> r.data]
                           ELSE UNCHANGED <<inSend, wr, tm, respDone, pending>>
    /\ UNCHANGED <<req, cur>>
    /\ UNCHANGED setupVars
    /\ UNCHANGED libVars

\* The write goroutine: io.Copy(wc, data); ok is whether the writer accepts it.
WriterCopy(ok) ==
    /\ wr = "copy"
    /\ IF ok
       THEN /\ w' = Write(w, Chunk(pending.enc, pending.level, pending.data))
            /\ wr' = "close"
            /\ UNCHANGED <<errs, respDone>>
       ELSE /\ errs' = PerformError(Deref(cur.options), "unable to write response body", errs)
            /\ wr' = "done"
            /\ respDone' = TRUE
            /\ UNCHANGED w
    /\ hist' = [hist EXCEPT !.werr = ~ok]
    /\ UNCHANGED <<req, phase, cur, sent, stack, inSend, panicMsg, tm, pending>>
    /\ UNCHANGED setupVars
    /\ UNCHANGED libVars

\* The write goroutine: wc.Close(), then the deferred respCancel(). Closing the
\* no-op closer of the identity transform cannot fail.
WriterClose(ok) ==
    /\ wr = "close"
    /\ ok \/ pending.enc # "identity"
    /\ IF ok
       THEN /\ w' = [w EXCEPT !.body[Len(w.body)].closed = TRUE]
            /\ UNCHANGED errs
       ELSE /\ errs' = PerformError(Deref(cur.options), "unable to write end of response body", errs)
            /\ UNCHANGED w
    /\ wr' = "done"
    /\ respDone' = TRUE
    /\ hist' = [hist EXCEPT !.werr = ~ok]
    /\ UNCHANGED <<req, phase, cur, sent, stack, inSend, panicMsg, tm, pending>>
    /\ UNCHANGED setupVars
    /\ UNCHANGED libVars

\* a deadline that never fires
TimerFireNever == FALSE /\ UNCHANGED vars

\* The deadline goroutine: time.After(WriteTimeout) fires, the goroutine cancels
\* respCtx and ends.
TimerFire ==
    /\ tm = "wait"
    /\ ~respDone
    /\ respDone' = TRUE
    /\ tm' = "fired"
    /\ UNCHANGED <<req, phase, cur, sent, stack, inSend, w, errs, panicMsg, wr, pending, hist>>
    /\ UNCHANGED setupVars
    /\ UNCHANGED libVars

\* The deadline goroutine: respCtx is done, the goroutine ends.
TimerExit ==
    /\ tm = "wait"
    /\ respDone
    /\ tm' = "done"
    /\ UNCHANGED <<req, phase, cur, sent, stack, inSend, w, errs, panicMsg, wr, respDone,
                   pending, hist>>
    /\ UNCHANGED setupVars
    /\ UNCHANGED libVars

\* <-respCtx.Done() returns: send returns to the middleware or handler that called it.
SendReturn ==
    /\ phase = "chain"
    /\ inSend
    /\ respDone
    /\ inSend' = FALSE
    /\ UNCHANGED <<req, phase, cur, sent, stack, w, errs, panicMsg, wr, tm, respDone,
                   pending, hist>>
    /\ UNCHANGED setupVars
    /\ UNCHANGED libVars

\* The running middleware calls next(req, send): the wrapper of the following slot.
CallNext(prog) ==
    /\ Running
    /\ Top.todo # << >>
    /\ Head(Top.todo) = "next"
    /\ CurDo[Top.d].next # 0
    /\ prog \in ProgramsOf({prog}, CurDo[Top.d].next)
    /\ stack' = Invoke(Bump(stack), CurDo, CurDo[Top.d].next, sent, prog)
    /\ hist' = Started([hist EXCEPT !.nexted = @ \cup {Top.d}], stack')
    /\ UNCHANGED <<req, phase, cur, sent, inSend, w, errs, panicMsg, wr, tm, respDone, pending>>
    /\ UNCHANGED setupVars
    /\ UNCHANGED libVars

\* The running middleware or handler returns to its caller.
Return ==
    /\ Running
    /\ Top.todo = << >>
    /\ stack' = ReturnFrom(stack)
    /\ hist' = Started(hist, stack')
    /\ UNCHANGED <<req, phase, cur, sent, inSend, w, errs, panicMsg, wr, tm, respDone, pending>>
    /\ UNCHANGED setupVars
    /\ UNCHANGED libVars

\* a ServeHTTP that returns after the chain without testing sent
ChainEndQuiet ==
    /\ phase = "chain"
    /\ stack = << >>
    /\ phase' = "done"
    /\ UNCHANGED <<req, cur, sent, stack, inSend, w, errs, wr, tm, respDone, pending, hist,
                   panicMsg>>
    /\ UNCHANGED setupVars
    /\ UNCHANGED libVars

\* do[len(do)-1](req, send) has returned: if sent == 0 { panic("send must be called") }
ChainEnd ==
    /\ phase = "chain"
    /\ stack = << >>
    /\ IF sent = 0
       THEN phase' = "panic" /\ panicMsg' = "send must be called"
       ELSE phase' = "done" /\ UNCHANGED panicMsg
    /\ UNCHANGED <<req, cur, sent, stack, inSend, w, errs, wr, tm, respDone, pending, hist>>
    /\ UNCHANGED setupVars
    /\ UNCHANGED libVars

\* The request is over; the next one can arrive.  Its read deadline goroutine,
\* once it has returned, is gone.
Finish ==
    /\ phase \in {"done", "panic"}
    /\ req' = NoReq
    /\ phase' = "idle"
    /\ cur' = NilHandler
    /\ sent' = 0
    /\ stack' = << >>
    /\ inSend' = FALSE
    /\ w' = NewWriter
    /\ errs' = << >>
    /\ panicMsg' = Nil
    /\ wr' = "none"
    /\ tm' = "none"
    /\ respDone' = FALSE
    /\ pending' = NoPending
    /\ hist' = NoHist
    /\ guard' = IF guard.state = "done" THEN NoGuard ELSE guard
    /\ UNCHANGED setupVars
    /\ UNCHANGED <<binder, client, workers, inputs>>

(* ------------------------------------------------------------------ *)
(* Concurrent callers of send                                           *)
(* ------------------------------------------------------------------ *)

\* goroutines one request starts at most
MaxWorkers == 2

\* The running middleware or handler starts a goroutine that will call
\* send(nil, 200) and goes on.
Go ==
    /\ Running
    /\ Top.todo # << >>
    /\ Head(Top.todo) = "go"
    /\ Len(workers) < MaxWorkers
    /\ workers' = Append(workers, "ready")
    /\ stack' = Bump(stack)
    /\ UNCHANGED <<req, phase, cur, sent, inSend, w, errs, panicMsg, wr, tm, respDone,
                   pending, hist>>
    /\ UNCHANGED <<setupVars, binder, client, guard, inputs>>

\* A step of goroutine i inside send.  First the compare-and-swap on sent: the
\* goroutine wins the flag, or panics with "already sent" (a panic outside the
\* goroutine of the request, which net/http does not recover).  Then, for the
\* winner, the rest of send up to the start of the body write.
Worker(i) ==
    /\ i \in DOMAIN workers
    /\ cur # NilHandler
    /\ \/ /\ workers[i] = "ready"
          /\ IF SendAllowed(sent)
             THEN /\ sent' = 1
                  /\ workers' = [workers EXCEPT ![i] = "won"]
                  /\ hist' = [hist EXCEPT !.sendCalls = @ + 1, !.sender = 0 - i]
             ELSE /\ workers' = [workers EXCEPT ![i] = "rejected"]
                  /\ hist' = [hist EXCEPT !.sendCalls = @ + 1]
                  /\ UNCHANGED sent
          /\ UNCHANGED <<w, errs, wr, tm, respDone, pending>>
       \/ /\ workers[i] = "won"
          /\ workers' = [workers EXCEPT ![i] = "sent"]
          /\ LET r == SendResult(Deref(cur.options), req.method, << >>, OutNil, 200, << >>, w)
             IN  /\ w' = r.w
                 /\ hist' = [hist EXCEPT !.out = OutNil, !.code = 200, !.enc = r.enc]
                 /\ IF r.spawn
                    THEN /\ wr' = "copy"
                         /\ tm' = IF Deref(cur.options).WriteTimeout > 0 THEN "wait" ELSE "none"
                         /\ respDone' = FALSE
                         /\ pending' = [enc |-> r.enc, level |-> r.level, data |-> r.data]
                    ELSE UNCHANGED <<wr, tm, respDone, pending>>
          /\ UNCHANGED <<sent, errs>>
    /\ UNCHANGED <<req, phase, cur, stack, inSend, panicMsg>>
    /\ UNCHANGED <<setupVars, binder, client, guard, inputs>>

(* ------------------------------------------------------------------ *)
(* The read deadline of a request bound from its body                   *)
(* ------------------------------------------------------------------ *)

\* A step of the read deadline goroutine or of its timer.  A select that finds
\* several cases ready takes one of them by a uniform pseudo-random choice.
ReadGuard ==
    /\ \/ /\ guard.state = "start"
          /\ guard' = [guard EXCEPT !.state = "timer"]
       \/ /\ guard.state \in {"timer", "blocked"}
          /\ ~guard.elapsed
          /\ guard' = [guard EXCEPT !.elapsed = TRUE,
                                    !.timely = ~guard.completed,
                                    !.state = IF @ = "blocked" THEN "close" ELSE @]
       \/ /\ guard.state = "timer"
          /\ IF guard.elapsed
             THEN \E c \in {"close"} \cup (IF guard.completed THEN {"exit"} ELSE {}) :
                     guard' = [guard EXCEPT !.state = c]
             ELSE guard' = [guard EXCEPT !.state = IF guard.completed THEN "exit" ELSE "blocked"]
       \/ /\ guard.state = "close"
          /\ guard' = [guard EXCEPT !.closed = TRUE, !.state = "done"]
       \/ /\ guard.state = "exit"
          /\ guard' = [guard EXCEPT !.state = "done"]
    /\ UNCHANGED <<setupVars, reqVars, binder, client, workers, inputs>>

\* Decode returns, completed is closed, and the request goes on to the answer
\* 400 or to req.In = in.  aborted: Decode failed because the body was closed
\* under it.
ReadEnd(aborted) ==
    /\ phase = "read"
    /\ LET timed == Deref(cur.options).ReadTimeout > 0
           r     == DecodeServe(cur, req.body, aborted)
       IN  /\ aborted => (timed /\ guard.closed)
           /\ guard' = IF timed
                       THEN [guard EXCEPT !.completed = TRUE, !.aborted = aborted,
                                          !.state = IF @ = "blocked" THEN "exit" ELSE @]
                       ELSE guard
           /\ req' = [req EXCEPT !.In = r.In]
           /\ phase' = r.phase
           /\ w' = r.w
           /\ errs' = r.errs
           /\ panicMsg' = r.panic
    /\ UNCHANGED <<cur, sent, stack, hist, inSend, wr, tm, respDone, pending>>
    /\ UNCHANGED <<setupVars, binder, client, workers, inputs>>

(* ------------------------------------------------------------------ *)
(* Field binder: valuesToStruct and structToValues                      *)
(* ------------------------------------------------------------------ *)

\* A text (a query value) is a sequence of one-character strings, of at most
\* MaxText characters where every text over an alphabet is tried.
MaxText == 4

DigitChars == <<"0", "1", "2", "3", "4", "5", "6", "7", "8", "9">>

\* the letters of the base64 alphabet used here, with their six bits
B64 == [c \in {"A", "Q", "R"} |-> CASE c = "A" -> 0 [] c = "Q" -> 16 [] c = "R" -> 17]

\* the integer kinds of the fields: lowest and highest value
IntRange == [int8 |-> [lo |-> -128, hi |-> 127], uint8 |-> [lo |-> 0, hi |-> 255]]

\* the pointer kinds of the fields and what they point to; a pointer is nil,
\* or holds the value it points at
PtrElem == [ptrstring |-> "string", ptrint8 |-> "int8", ptrbytes |-> "bytes", ptrtime |-> "time"]
NilPtr  == [nil |-> TRUE, at |-> << >>]
PtrTo(v) == [nil |-> FALSE, at |-> v]

\* the result of a conversion: err is Nil or the error, v the value
Conv(v) == [err |-> Nil, v |-> v]
ConvErr(v, msg) == [err |-> msg, v |-> v]

\* The zero value of a field.  A float64 is its sign, its significant digits
\* (no leading or trailing zero) and the position pp of the decimal point,
\* value = 0.d1d2... * 10^pp, or the kind "nan" for what json.Marshal rejects:
\* a text of at most MaxText characters has fewer than 15 significant digits
\* and a decimal exponent below 1000, where strconv.ParseFloat followed by the
\* shortest formatting is exact on the decimal digits, or out of range.  A
\* []byte is nil or its bytes.  A time.Time is its instant inst in hours, the
\* digits ns of the fraction of its second without trailing zeros, the offset
\* off of its location in hours and whether it holds a monotonic reading.
ZeroOf(typ) ==
    CASE typ = "bool"    -> FALSE
      [] typ \in DOMAIN IntRange -> 0
      [] typ = "float64" -> [kind |-> "num", neg |-> FALSE, digits |-> << >>, pp |-> 0]
      [] typ = "string"  -> << >>
      [] typ = "bytes"   -> [nil |-> TRUE, b |-> << >>]
      [] typ = "time"    -> [inst |-> 0, ns |-> << >>, off |-> 0, mono |-> FALSE]
      [] typ \in DOMAIN PtrElem -> NilPtr

\* The switch of valuesToStruct on the type of the field: the value of the
\* field holding old after the text was put into it.
\*   string: the text itself.
\*   []byte, time.Time: strconv.Quote, then json.Unmarshal.  strconv.Quote
\*     followed by the string scanner of encoding/json gives the text back,
\*     except for the control characters strconv.Quote writes as \a, \v or
\*     \x..: they are no JSON escapes ("^A" stands for such a character).  A
\*     []byte is then decoded by base64.StdEncoding: line breaks are skipped,
\*     the text is read four characters at a time, padding is required and the
\*     unused bits are ignored.  A time.Time is parsed as RFC 3339: the text
\*     is taken apart into the day of its date, the hour of its clock, the
\*     digits of the fraction and the zone ("" when it is missing).
\*   others: json.Unmarshal.  White space around the value is skipped, null
\*     leaves the field as it is, a number is scanned as
\*     -? (0 | [1-9][0-9]*) (. [0-9]+)? ([eE] [+-]? [0-9]+)? and then parsed by
\*     strconv.ParseInt / ParseUint (digits only, in range, no sign for the
\*     unsigned) or strconv.ParseFloat (in range: up to 1.7976931348623157e308).
DecodeField(typ, text, old) ==
    LET failed == ConvErr(old, "unable to unmarshal field")
        null   == <<"n", "u", "l", "l">>
        space  == {" ", "\t", "\n", "\r"}
        maxFloat64 == <<"1", "7", "9", "7", "6", "9", "3", "1", "3", "4", "8", "6", "2",
                        "3", "1", "5", "7">>
        IsDigit(c) == \E i \in 1..10 : DigitChars[i] = c
        DigitVal(c) == (CHOOSE i \in 1..10 : DigitChars[i] = c) - 1
        Drop(t, n) == SubSeq(t, n + 1, Len(t))
        RECURSIVE TrimLeft(_)
        TrimLeft(t) == IF t # << >> /\ Head(t) \in space THEN TrimLeft(Tail(t)) ELSE t
        RECURSIVE TrimRight(_)
        TrimRight(t) ==
            IF t # << >> /\ t[Len(t)] \in space
            THEN TrimRight(SubSeq(t, 1, Len(t) - 1)) ELSE t
        RECURSIVE DigitPrefix(_)
        DigitPrefix(t) ==
            IF t # << >> /\ IsDigit(Head(t)) THEN <<Head(t)>> \o DigitPrefix(Tail(t))
            ELSE << >>
        RECURSIVE DigitsValue(_)
        DigitsValue(ds) ==
            IF ds = << >> THEN 0
            ELSE 10 * DigitsValue(SubSeq(ds, 1, Len(ds) - 1)) + DigitVal(ds[Len(ds)])
        RECURSIVE StripLeadingZeros(_)
        StripLeadingZeros(ds) ==
            IF ds # << >> /\ Head(ds) = "0" THEN StripLeadingZeros(Tail(ds)) ELSE ds
        RECURSIVE StripTrailingZeros(_)
        StripTrailingZeros(ds) ==
            IF ds # << >> /\ ds[Len(ds)] = "0"
            THEN StripTrailingZeros(SubSeq(ds, 1, Len(ds) - 1)) ELSE ds
        \* ds > es as decimal fractions 0.ds and 0.es
        RECURSIVE FracGreater(_, _)
        FracGreater(ds, es) ==
            IF ds = << >> THEN FALSE
            ELSE IF es = << >> THEN TRUE
            ELSE IF Head(ds) # Head(es) THEN DigitVal(Head(ds)) > DigitVal(Head(es))
            ELSE FracGreater(Tail(ds), Tail(es))
        \* the scanner, part by part: s is what the parts before found, rest
        \* the text left
        ScanEnd(s, ep, rest) ==
            [s EXCEPT !.ok = s.ok /\ (s.hasExp => ep # << >>) /\ Len(rest) = Len(ep),
                      !.exp = ep]
        ScanExpDigits(s, rest) ==
            ScanEnd(s, IF s.hasExp THEN DigitPrefix(rest) ELSE << >>, rest)
        ScanExpSign(s, hasSign, rest) ==
            ScanExpDigits([s EXCEPT !.eneg = hasSign /\ Head(rest) = "-"],
                          IF hasSign THEN Tail(rest) ELSE rest)
        ScanExp(s, hasExp, rest) ==
            ScanExpSign([s EXCEPT !.hasExp = hasExp],
                        hasExp /\ Len(rest) > 1 /\ rest[2] \in {"+", "-"},
                        IF hasExp THEN Tail(rest) ELSE rest)
        ScanFracDigits(s, fp, rest) ==
            ScanExp([s EXCEPT !.ok = s.ok /\ (s.hasFrac => fp # << >>), !.frac = fp],
                    Len(rest) > Len(fp) /\ rest[Len(fp) + 1] \in {"e", "E"},
                    Drop(rest, Len(fp)))
        ScanFrac(s, hasFrac, rest) ==
            ScanFracDigits([s EXCEPT !.hasFrac = hasFrac],
                           IF hasFrac THEN DigitPrefix(Tail(rest)) ELSE << >>,
                           IF hasFrac THEN Tail(rest) ELSE rest)
        ScanInt(s, ip, rest) ==
            ScanFrac([s EXCEPT !.ok = ip # << >> /\ (Len(ip) > 1 => Head(ip) # "0"),
                               !.int = ip],
                     Len(rest) > Len(ip) /\ rest[Len(ip) + 1] = ".",
                     Drop(rest, Len(ip)))
        ScanSign(neg, rest) ==
            ScanInt([ok |-> TRUE, neg |-> neg, int |-> << >>, hasFrac |-> FALSE,
                     frac |-> << >>, hasExp |-> FALSE, eneg |-> FALSE, exp |-> << >>],
                    DigitPrefix(rest), rest)
        ScanNumber(t) ==
            ScanSign(t # << >> /\ Head(t) = "-",
                     IF t # << >> /\ Head(t) = "-" THEN Tail(t) ELSE t)
        \* bool
        BoolOfText(t) ==
            IF t = null THEN Conv(old)
            ELSE IF t = <<"t", "r", "u", "e">> THEN Conv(TRUE)
            ELSE IF t = <<"f", "a", "l", "s", "e">> THEN Conv(FALSE)
            ELSE failed
        \* integers
        IntInRange(v) == IF v >= IntRange[typ].lo /\ v <= IntRange[typ].hi THEN Conv(v)
                         ELSE failed
        IntOfScan(s) ==
            IF ~s.ok \/ s.hasFrac \/ s.hasExp \/ (s.neg /\ IntRange[typ].lo = 0) THEN failed
            ELSE IntInRange(IF s.neg THEN 0 - DigitsValue(s.int) ELSE DigitsValue(s.int))
        IntOfText(t) == IF t = null THEN Conv(old) ELSE IntOfScan(ScanNumber(t))
        \* floats: sig are the digits from the first that is not zero, e the exponent
        FloatOfParts(neg, ds, pp) ==
            IF ds = << >> THEN Conv([kind |-> "num", neg |-> neg, digits |-> << >>, pp |-> 0])
            ELSE IF pp > 309 \/ (pp = 309 /\ FracGreater(ds, maxFloat64)) THEN failed
            ELSE Conv([kind |-> "num", neg |-> neg, digits |-> ds, pp |-> pp])
        FloatOfDigits(s, sig, e) ==
            FloatOfParts(s.neg, StripTrailingZeros(sig),
                         Len(s.int) - (Len(s.int) + Len(s.frac) - Len(sig)) + e)
        FloatOfScan(s) ==
            IF ~s.ok THEN failed
            ELSE FloatOfDigits(s, StripLeadingZeros(s.int \o s.frac),
                               IF s.eneg THEN 0 - DigitsValue(s.exp) ELSE DigitsValue(s.exp))
        FloatOfText(t) == IF t = null THEN Conv(old) ELSE FloatOfScan(ScanNumber(t))
        \* []byte
        RECURSIVE DropNewlines(_)
        DropNewlines(t) ==
            IF t = << >> THEN << >>
            ELSE IF Head(t) \in {"\r", "\n"} THEN DropNewlines(Tail(t))
            ELSE <<Head(t)>> \o DropNewlines(Tail(t))
        SixBits(c) == IF c \in DOMAIN B64 THEN B64[c] ELSE 0
        QuantumBytes(v1, v2, v3, v4, pad) ==
            SubSeq(<<v1 * 4 + v2 \div 16, (v2 % 16) * 16 + v3 \div 4, (v3 % 4) * 64 + v4>>,
                   1, 3 - pad)
        DecodePadded(q, pad, last) ==
            [ok |-> /\ \A i \in 1..(4 - pad) : q[i] \in DOMAIN B64
                    /\ \A i \in (5 - pad)..4 : q[i] = "="
                    /\ (pad > 0 => last),
             b  |-> QuantumBytes(SixBits(q[1]), SixBits(q[2]), SixBits(q[3]), SixBits(q[4]),
                                 pad)]
        DecodeQuantum(q, last) ==
            DecodePadded(q, IF q[4] # "=" THEN 0 ELSE IF q[3] # "=" THEN 1 ELSE 2, last)
        JoinDecoded(q, rest) == [ok |-> q.ok /\ rest.ok, b |-> q.b \o rest.b]
        RECURSIVE DecodeQuanta(_)
        DecodeQuanta(t) ==
            IF t = << >> THEN [ok |-> TRUE, b |-> << >>]
            ELSE IF Len(t) < 4 THEN [ok |-> FALSE, b |-> << >>]
            ELSE JoinDecoded(DecodeQuantum(SubSeq(t, 1, 4), Len(t) = 4),
                             DecodeQuanta(Drop(t, 4)))
        BytesOfDecoded(decoded) ==
            IF decoded.ok THEN Conv([nil |-> FALSE, b |-> decoded.b]) ELSE failed
        BytesOfText ==
            IF \E i \in 1..Len(text) : text[i] = "^A" THEN failed
            ELSE BytesOfDecoded(DecodeQuanta(DropNewlines(text)))
        \* time.Time
        ZoneOffset(zone) ==
            CASE zone = "Z" -> 0 [] zone = "+00:00" -> 0 [] zone = "+01:00" -> 1
              [] zone = "-01:00" -> -1
        TimeOfText ==
            IF text.zone = "" THEN failed
            ELSE Conv([inst |-> text.day * 24 + text.hour - ZoneOffset(text.zone),
                       ns   |-> StripTrailingZeros(text.frac),
                       off  |-> ZoneOffset(text.zone),
                       mono |-> FALSE])
    IN  CASE typ = "string"  -> Conv(text)
          [] typ = "bytes"   -> BytesOfText
          [] typ = "time"    -> TimeOfText
          [] typ = "bool"    -> BoolOfText(TrimRight(TrimLeft(text)))
          [] typ \in DOMAIN IntRange -> IntOfText(TrimRight(TrimLeft(text)))
          [] typ = "float64" -> FloatOfText(TrimRight(TrimLeft(text)))

\* the digits of an integer without its sign
FormatIntUnsigned(v) ==
    LET RECURSIVE FormatNat(_)
        FormatNat(n) ==
            IF n < 10 THEN <<DigitChars[n + 1]>>
            ELSE Append(FormatNat(n \div 10), DigitChars[(n % 10) + 1])
    IN  FormatNat(IF v < 0 THEN 0 - v ELSE v)

\* strconv.FormatInt(v, 10), which json.Marshal writes for an integer
FormatInt(v) ==
    LET RECURSIVE FormatNat(_)
        FormatNat(n) ==
            IF n < 10 THEN <<DigitChars[n + 1]>>
            ELSE Append(FormatNat(n \div 10), DigitChars[(n % 10) + 1])
    IN  IF v < 0 THEN <<"-">> \o FormatNat(0 - v) ELSE FormatNat(v)

\* The switch of structToValues on the type of the field: the text of the value.
\*   string: the value itself.
\*   []byte, time.Time: json.Marshal, then strconv.Unquote.  A nil []byte is
\*     marshalled as null, which strconv.Unquote rejects, and the ignored error
\*     leaves the empty text; the others are written by
\*     base64.StdEncoding.EncodeToString.  Time.MarshalJSON formats with
\*     RFC3339Nano in the location of the value.
\*   others: json.Marshal.  A float is written by strconv.AppendFloat with the
\*     shortest digits, in the format 'e' below 1e-6 and from 1e21 on, where
\*     e-09 is cleaned up to e-9, and in the format 'f' otherwise.
\*   pointers: *string is dereferenced, and a nil one makes that panic; the
\*     others are marshalled like what they point at, and a nil one as null,
\*     which strconv.Unquote turns into the empty text for *[]byte and
\*     *time.Time.
RECURSIVE EncodeField(_, _)
EncodeField(typ, v) ==
    LET Drop(t, n) == SubSeq(t, n + 1, Len(t))
        RECURSIVE Zeros(_)
        Zeros(n) == IF n <= 0 THEN << >> ELSE <<"0">> \o Zeros(n - 1)
        FormatFixed(digits, pp) ==
            IF pp <= 0 THEN <<"0", ".">> \o Zeros(0 - pp) \o digits
            ELSE IF pp >= Len(digits) THEN digits \o Zeros(pp - Len(digits))
            ELSE SubSeq(digits, 1, pp) \o <<".">> \o Drop(digits, pp)
        FormatExponent(x) ==
            IF x < 0 THEN <<"e">> \o FormatInt(x)
            ELSE IF x < 10 THEN <<"e", "+", "0">> \o FormatInt(x)
            ELSE <<"e", "+">> \o FormatInt(x)
        FormatExp(digits, pp) ==
            (IF Len(digits) = 1 THEN digits ELSE <<Head(digits), ".">> \o Tail(digits))
                \o FormatExponent(pp - 1)
        FormatSigned(neg, body) == IF neg THEN <<"-">> \o body ELSE body
        FormatFloat ==
            IF v.kind = "nan" THEN ConvErr(<< >>, "unable to marshal field")
            ELSE IF v.digits = << >> THEN Conv(FormatSigned(v.neg, <<"0">>))
            ELSE IF v.pp - 1 < -6 \/ v.pp - 1 >= 21
                 THEN Conv(FormatSigned(v.neg, FormatExp(v.digits, v.pp)))
            ELSE Conv(FormatSigned(v.neg, FormatFixed(v.digits, v.pp)))
        B64Char(six) == CHOOSE c \in DOMAIN B64 : B64[c] = six
        RECURSIVE Base64Encode(_)
        Base64Encode(b) ==
            IF b = << >> THEN << >>
            ELSE IF Len(b) = 1
                 THEN <<B64Char(b[1] \div 4), B64Char((b[1] % 4) * 16), "=", "=">>
            ELSE IF Len(b) = 2
                 THEN <<B64Char(b[1] \div 4), B64Char((b[1] % 4) * 16 + b[2] \div 16),
                        B64Char((b[2] % 16) * 4), "=">>
            ELSE <<B64Char(b[1] \div 4), B64Char((b[1] % 4) * 16 + b[2] \div 16),
                   B64Char((b[2] % 16) * 4 + b[3] \div 64), B64Char(b[3] % 64)>>
                 \o Base64Encode(Drop(b, 3))
        FormatZone(off) == CASE off = 0 -> "Z" [] off = 1 -> "+01:00" [] off = -1 -> "-01:00"
        FormatTime ==
            [day  |-> (v.inst + v.off) \div 24,
             hour |-> (v.inst + v.off) % 24,
             frac |-> v.ns,
             zone |-> FormatZone(v.off)]
    IN  CASE typ = "string"  -> Conv(v)
          [] typ = "bytes"   -> Conv(IF v.nil THEN << >> ELSE Base64Encode(v.b))
          [] typ = "time"    -> Conv(FormatTime)
          [] typ = "bool"    -> Conv(IF v THEN <<"t", "r", "u", "e">>
                                     ELSE <<"f", "a", "l", "s", "e">>)
          [] typ \in DOMAIN IntRange -> Conv(FormatInt(v))
          [] typ = "float64" -> FormatFloat
          [] typ \in DOMAIN PtrElem ->
               IF ~v.nil THEN EncodeField(PtrElem[typ], v.at)
               ELSE CASE PtrElem[typ] = "string" ->
                           ConvErr(<< >>, "panic: nil pointer dereference")
                      [] PtrElem[typ] \in {"bytes", "time"} -> Conv(<< >>)
                      [] OTHER -> Conv(<<"n", "u", "l", "l">>)

\* reflect.Value.IsZero of a field, and the length test of structToValues for
\* slices: what omitempty leaves out.  A float is zero when it compares equal
\* to 0 (reflect of Go 1.22 and later, the toolchain HttpError follows too):
\* the negative zero is zero, a NaN is not.
IsZero(typ, v) ==
    IF typ = "bytes" THEN v.nil \/ v.b = << >>
    ELSE IF typ \in DOMAIN PtrElem THEN v.nil
    ELSE IF typ = "float64" THEN v.kind = "num" /\ v.digits = << >>
    ELSE v = ZeroOf(typ)

\* A struct type is the sequence of its fields: name is what parseJSONField
\* resolves ("" for the tag "-"), a struct value the sequence of their values.
Field(name, typ, omitempty, exported, anonymous) ==
    [name |-> name, typ |-> typ, omitempty |-> omitempty, exported |-> exported,
     anonymous |-> anonymous]

Skipped(field) == ~field.exported \/ field.anonymous \/ field.name = ""

ZeroStruct(st) == [i \in 1..Len(st) |-> ZeroOf(st[i].typ)]

\* valuesToStruct(values, &target): values is url.Values, the keys present,
\* each with its list of values; the first error ends it
valuesToStruct(values, st, target) ==
    LET RECURSIVE From(_, _)
        SetField(tgt, i, r) ==
            IF r.err # Nil THEN ConvErr(tgt, r.err)
            ELSE From([tgt EXCEPT ![i] = r.v], i + 1)
        From(tgt, i) ==
            IF i > Len(st) THEN Conv(tgt)
            ELSE IF Skipped(st[i]) \/ st[i].name \notin DOMAIN values
                 THEN From(tgt, i + 1)
            ELSE SetField(tgt, i, DecodeField(st[i].typ, values[st[i].name][1], tgt[i]))
    IN  From(target, 1)

\* structToValues(source)
structToValues(st, source) ==
    LET Set(values, name, text) ==
            [n \in DOMAIN values \cup {name} |-> IF n = name THEN <<text>> ELSE values[n]]
        RECURSIVE From(_, _)
        SetValue(values, i, r) ==
            IF r.err # Nil THEN ConvErr(values, r.err)
            ELSE From(Set(values, st[i].name, r.v), i + 1)
        From(values, i) ==
            IF i > Len(st) THEN Conv(values)
            ELSE IF Skipped(st[i]) \/ (st[i].omitempty /\ IsZero(st[i].typ, source[i]))
                 THEN From(values, i + 1)
            ELSE SetValue(values, i, EncodeField(st[i].typ, source[i]))
    IN  From([n \in {} |-> << >>], 1)

\* A run of the binder converts a, the input, to b and b to c: a parameter set
\* to a struct and back (dir "query"), or a struct to a parameter set and back
\* (dir "struct"), or a struct with a pointer field to a parameter set alone
\* (dir "encode"); step counts the conversions done, err is the first error.
NoBinder == [dir |-> "none", st |-> << >>, step |-> 0, a |-> Nil, b |-> Nil, c |-> Nil,
             err |-> Nil]

\* the run after its next conversion gave r
Converted(run, r) ==
    IF run.step = 0 THEN [run EXCEPT !.step = 1, !.b = r.v, !.err = r.err]
    ELSE [run EXCEPT !.step = 2, !.c = r.v, !.err = r.err]

\* valuesToStruct(values, &target) with a zero struct as target
ValuesToStruct ==
    /\ binder.err = Nil
    /\ (binder.dir = "query" /\ binder.step = 0) \/ (binder.dir = "struct" /\ binder.step = 1)
    /\ binder' = Converted(binder,
                           valuesToStruct(IF binder.step = 0 THEN binder.a ELSE binder.b,
                                          binder.st, ZeroStruct(binder.st)))
    /\ UNCHANGED <<setupVars, reqVars, client, workers, guard, inputs>>

\* structToValues(source)
StructToValues ==
    /\ binder.err = Nil
    /\ \/ binder.dir \in {"struct", "encode"} /\ binder.step = 0
       \/ binder.dir = "query" /\ binder.step = 1
    /\ binder' = Converted(binder,
                           structToValues(binder.st,
                                          IF binder.step = 0 THEN binder.a ELSE binder.b))
    /\ UNCHANGED <<setupVars, reqVars, client, workers, guard, inputs>>

(* ------------------------------------------------------------------ *)
(* The input of a request: a copy of the registered prototype           *)
(* ------------------------------------------------------------------ *)

\* requests in flight at once
MaxRequests == 2

\* st: the struct type of the prototype; objs: the struct values allocated,
\* objs[1] being the value registered (h.in points at it); proto: that value
\* as it was at registration; reqs: the requests whose input was bound, each
\* with the object req.In points at, the query it was bound from, the value
\* start the copy had before the query was put into it, and the value handed
\* to the chain; last: the request that took the last step.
NoInputs == [st |-> << >>, objs |-> << >>, proto |-> << >>, reqs |-> << >>, last |-> 0]

\* a copy that is the zero value of the type
copyStructValueZero(st, v) == [i \in DOMAIN st |-> ZeroOf(st[i].typ)]

\* copyReflectValue on a struct value: reflect.New, then json.Marshal of the
\* value and json.Unmarshal into the new one.  encoding/json carries the
\* exported fields whose tag is not "-"; it leaves out an omitempty field that
\* is empty; a time comes back without its monotonic reading.
copyStructValue(st, v) ==
    [i \in DOMAIN st |->
        IF ~st[i].exported \/ st[i].name = "" THEN ZeroOf(st[i].typ)
        ELSE IF st[i].typ = "time" THEN [v[i] EXCEPT !.mono = FALSE]
        ELSE IF st[i].typ = "bytes" /\ st[i].omitempty /\ v[i].b = << >> THEN ZeroOf("bytes")
        ELSE v[i]]

\* an input that is the registered value itself
AllocInputShared(objs, st) == [objs |-> objs, at |-> 1]

\* copiedInVal, err := copyReflectValue(inVal): a new object holding the copy
AllocInput(objs, st) ==
    [objs |-> Append(objs, copyStructValue(st, objs[1])), at |-> Len(objs) + 1]

\* methodHandler.ServeHTTP of a request bound from its query string, up to
\* req.In = in: the copy, valuesToStruct into it, and (unless that fails, and
\* the request is answered 400) the input handed to the chain.
BindInput(values) ==
    /\ inputs.objs # << >>
    /\ Len(inputs.reqs) < MaxRequests
    /\ LET a == AllocInput(inputs.objs, inputs.st)
           r == valuesToStruct(values, inputs.st, a.objs[a.at])
       IN  inputs' =
             IF r.err # Nil THEN [inputs EXCEPT !.last = 0]
             ELSE [inputs EXCEPT
                     !.objs = [a.objs EXCEPT ![a.at] = r.v],
                     !.reqs = Append(@, [at |-> a.at, values |-> values,
                                         start |-> a.objs[a.at], in |-> r.v]),
                     !.last = Len(inputs.reqs) + 1]
    /\ UNCHANGED <<setupVars, reqVars, binder, client, workers, guard>>

\* A middleware or handler of request i assigns v to field f of its req.In.
MutateInput(i, f, v) ==
    /\ i \in DOMAIN inputs.reqs
    /\ inputs.objs[inputs.reqs[i].at][f] # v
    /\ inputs' = [inputs EXCEPT !.objs[inputs.reqs[i].at][f] = v, !.last = i]
    /\ UNCHANGED <<setupVars, reqVars, binder, client, workers, guard>>

(* ------------------------------------------------------------------ *)
(* Caller: Factory.Caller and Caller.Call                              *)
(* ------------------------------------------------------------------ *)

\* newCallOptions.  Of RequestHeader the key Content-Type is kept: the list
\* of its values, empty when the header has no such key.  ErrOut is a
\* prototype, NilProto when it is nil.
newCallOptions ==
    [RequestHeader |-> << >>, MaxResponseBodySize |-> 0, ErrOut |-> NilProto,
     ForceBody |-> FALSE]

\* newJoinCallOption(opts...).apply(options), with the options WithRequestHeader,
\* WithAdditionalRequestHeader, WithMaxResponseBodySize, WithErrOut and
\* WithForceBody.  opt.name is the field the option sets to opt.v;
\* WithRequestHeader replaces the values of a key of the header,
\* WithAdditionalRequestHeader (name "AdditionalRequestHeader") appends its
\* values to those the key has.
RECURSIVE applyCallOptions(_, _)
applyCallOptions(options, opts) ==
    IF opts = << >> THEN options
    ELSE applyCallOptions(
             IF Head(opts).name = "AdditionalRequestHeader"
             THEN [options EXCEPT !.RequestHeader = @ \o Head(opts).v]
             ELSE [options EXCEPT ![Head(opts).name] = Head(opts).v],
             Tail(opts))

\* Callers one Factory creates
MaxCallers == 3

\* calls of Caller.Call, in flight or over
MaxCalls == 2

\* a Factory made without options and no Caller yet: the options of the
\* Factory, the Callers it created so far in the order of their creation, and
\* the calls of Call in the order they began
NoClient == [step |-> "none", factory |-> newCallOptions, callers |-> << >>, calls |-> << >>]

\* a Factory.Caller that applies the options to the options of the Factory
\* and hands the Caller a copy made before
CallerIntoFactory(f, method, out, opts) ==
    IF method \in {"HEAD", "GET", "DELETE", "POST", "PUT", "PATCH"}
    THEN [factory |-> applyCallOptions(f, opts), panic |-> Nil,
          c |-> [method |-> method, out |-> out, options |-> f, given |-> opts]]
    ELSE [factory |-> f, panic |-> "method not allowed", c |-> Nil]

\* Factory.Caller(endpoint, method, out, opts...) of a Factory with the options
\* f: the options of the Factory afterwards and the Caller, or the panic.
\* callOptions.Clone copies every field and clones the header map, so the
\* clone shares nothing an option writes.
Caller(f, method, out, opts) ==
    LET CloneOf(o) == [RequestHeader |-> o.RequestHeader,
                       MaxResponseBodySize |-> o.MaxResponseBodySize,
                       ErrOut |-> o.ErrOut, ForceBody |-> o.ForceBody]
    IN  IF method \in {"HEAD", "GET", "DELETE", "POST", "PUT", "PATCH"}
        THEN [factory |-> f, panic |-> Nil,
              c |-> [method |-> method, out |-> out,
                     options |-> applyCallOptions(CloneOf(f), opts), given |-> opts]]
        ELSE [factory |-> f, panic |-> "method not allowed", c |-> Nil]

\* methods, output prototypes and options Factory.Caller is called with
CallerMethods == {"HEAD", "GET", "DELETE", "POST", "PUT", "PATCH", "OPTIONS"}

CallerOuts == {NilProto, StructProto, StructPtrProto}

CallerOptionSets ==
    { << >> } \cup
    { <<[name |-> "ForceBody", v |-> b]>> : b \in BOOLEAN } \cup
    { <<[name |-> "ErrOut", v |-> p]>> :
        p \in {StructProto, StructPtrProto, NilStructPtrProto, ChanProto} } \cup
    { <<[name |-> "RequestHeader", v |-> <<ct>>]>> :
        ct \in {ContentType("application/json", ""), ContentType("text/plain", "")} } \cup
    { <<[name |-> "AdditionalRequestHeader", v |-> <<ContentType("text/plain", "")>>]>> } \cup
    { <<[name |-> "MaxResponseBodySize", v |-> 1]>> }

\* f.Caller(endpoint, method, out, opts...), next to the calls in flight; a
\* panic ends the program
FactoryCaller(method, out, opts) ==
    /\ client.step \in {"none", "caller"}
    /\ Len(client.callers) < MaxCallers
    /\ LET r == Caller(client.factory, method, out, opts)
       IN  client' = IF r.panic = Nil
                     THEN [step |-> "caller", factory |-> r.factory,
                           callers |-> Append(client.callers, r.c), calls |-> client.calls]
                     ELSE [step |-> "panic", panic |-> r.panic, factory |-> r.factory,
                           callers |-> client.callers, calls |-> client.calls]
    /\ UNCHANGED <<setupVars, reqVars, binder, workers, guard, inputs>>

\* Caller.Call up to c.client.Do: the request, or the error Call returns with.
\* An input is a prototype with, for a struct, the type st and the value v.
\* The header of the request is a clone of options.RequestHeader, with the
\* Content-Type set for a JSON body; ct is what Header.Get gives for it, the
\* first value of the key.
BuildRequest(method, options, in) ==
    LET HeaderGet(values) == IF values = << >> THEN ContentType("", "") ELSE values[1]
        Request(query, values, ct, body) ==
            [method |-> method, query |-> query, values |-> values, ct |-> ct, body |-> body]
        Failed(msg) == [err |-> msg, req |-> Nil]
        FromValues(r) ==
            IF r.err # Nil THEN Failed("unable to set input to values")
            ELSE [err |-> Nil, req |-> Request(TRUE, r.v, HeaderGet(options.RequestHeader), NoBody)]
        \* data, err = json.Marshal(in); data = append(data, '\n'); the body
        \* holds one JSON value, which ends before the line break
        FromData(r) ==
            IF r.err THEN Failed("unable to encode input")
            ELSE [err |-> Nil,
                  req |-> Request(FALSE, [n \in {} |-> << >>],
                                  ContentType("application/json", "utf-8"),
                                  BodyOf(Len(r.data) + 1, Len(r.data)))]
        FromField(r) ==
            [err |-> r.err # Nil, data |-> <<"{", "\"", "f", "\"", ":">> \o r.v \o <<"}">>]
        MarshalIn ==
            CASE in.kind = "invalid" \/ (in.ptr /\ in.isnil) -> Marshal(OutNil)
              [] in.kind = "struct" -> FromField(EncodeField(in.st[1].typ, in.v[1]))
              [] in.kind = "string" -> Marshal(OutString(in.v))
              [] OTHER -> Marshal(OutChan)
    IN  IF ~options.ForceBody /\ method \in {"HEAD", "GET", "DELETE"}
        THEN IF ~(in.kind = "invalid" \/ (in.kind = "struct" /\ ~in.isnil))
             THEN Failed("input must be nil or struct or struct pointer")
             ELSE IF in.kind = "invalid"
                  THEN FromValues(Conv([n \in {} |-> << >>]))
             ELSE FromValues(structToValues(in.st, in.v))
        ELSE FromData(MarshalIn)

\* a Call that decodes into the output prototype and reports success whatever
\* the status
ReadResponseAsSuccess(c, options, resp) ==
    [out |-> [proto |-> c.out, fresh |-> TRUE,
              decoded |-> DecodeBody(resp.body, options.MaxResponseBodySize,
                                     copyReflectValue(c.out).elem)],
     err |-> [kind |-> "none"]]

\* a Call that fails on every status but 200
ReadResponseStrict(c, options, resp) ==
    IF resp.status # 200
    THEN [out |-> [proto |-> NilProto, fresh |-> FALSE, decoded |-> FALSE],
          err |-> [kind |-> "status"]]
    ELSE [out |-> [proto |-> c.out, fresh |-> TRUE, decoded |-> TRUE], err |-> [kind |-> "none"]]

\* Caller.Call from the response on: result.Out and the error.  c is the
\* Caller, options the options of this call, resp the response.
ReadResponse(c, options, resp) ==
    LET validMediaTypes ==
            IF resp.status # 200 THEN {"application/json", "text/plain"}
            ELSE {"application/json"}
        isErr  == resp.status # 200 /\ c.options.ErrOut # NilProto
        outVal == IF isErr THEN c.options.ErrOut ELSE c.out
        Answer(out, err) == [out |-> out, err |-> err]
        \* result.Out left nil
        NoOut == [proto |-> NilProto, fresh |-> FALSE, decoded |-> FALSE]
        \* io.ReadAll(io.LimitReader(rd, 1024)): the bytes of the body read
        limit == IF options.MaxResponseBodySize > 0 /\ options.MaxResponseBodySize < 1024
                 THEN options.MaxResponseBodySize ELSE 1024
        PlainText(len) == [kind |-> "PlainTextError", len |-> IF len < limit THEN len ELSE limit]
        \* data, err = io.ReadAll(io.LimitReader(rd, 1024))
        ReadAll(body) ==
            IF ReadFails(body, limit) THEN [kind |-> "unable to read response body"]
            ELSE PlainText(body.len)
        \* the copy of the prototype, with whether the body was decoded into it
        Out(decoded) == [proto |-> outVal, fresh |-> TRUE, decoded |-> decoded]
        Returned(out) ==
            IF isErr THEN Answer(out, [kind |-> "ErrOut", out |-> out])
            ELSE Answer(out, [kind |-> "none"])
    IN  IF resp.ct.media # "" /\ validateContentType(resp.ct, validMediaTypes) # Nil
            THEN Answer(NoOut, [kind |-> "InvalidContentTypeError"])
        ELSE IF ToLower(resp.ct.media) = "text/plain"
            THEN Answer(NoOut, ReadAll(resp.body))
        ELSE IF copyReflectValue(outVal).err
            THEN Answer(NoOut, [kind |-> "unable to copy output"])
        ELSE IF c.method = "HEAD" THEN Returned(Out(FALSE))
        ELSE IF ~DecodeBody(resp.body, options.MaxResponseBodySize,
                            copyReflectValue(outVal).elem)
            THEN Answer(NoOut, [kind |-> "unable to decode response body"])
        ELSE Returned(Out(TRUE))

\* inputs of Call
CallInputs ==
    LET OneFloat == <<Field("f", "float64", FALSE, TRUE, FALSE)>>
        Float(digits) == [kind |-> "num", neg |-> FALSE, digits |-> digits, pp |-> Len(digits)]
        Struct(ptr, isnil, v) ==
            [kind |-> "struct", ptr |-> ptr, isnil |-> isnil, st |-> OneFloat, v |-> v]
        Other(kind, v) == [kind |-> kind, ptr |-> FALSE, isnil |-> kind = "invalid", st |-> << >>, v |-> v]
    IN  { Other("invalid", << >>), Other("string", <<"a">>), Other("chan", << >>),
          Struct(FALSE, FALSE, <<Float(<<"1">>)>>), Struct(TRUE, FALSE, <<Float(<<"1">>)>>),
          Struct(TRUE, TRUE, <<Float(<< >>)>>),
          Struct(FALSE, FALSE, <<[kind |-> "nan", neg |-> FALSE, digits |-> << >>, pp |-> 0]>>) }

\* options given to Call
CallOptionSets ==
    { << >>, <<[name |-> "ForceBody", v |-> TRUE]>>,
      <<[name |-> "ErrOut", v |-> StructPtrProto]>>,
      <<[name |-> "RequestHeader", v |-> <<ContentType("application/json", "")>>]>> }

\* what c.client.Do returns: an error, or a response with its status and
\* Content-Type, the body still to be read
Responses ==
    { [failed |-> FALSE, resp |-> [status |-> status, ct |-> ct, body |-> NoBody]] :
        status \in {200, 400},
        ct \in {ContentType("", ""), ContentType("application/json", "utf-8"),
                ContentType("text/plain", "utf-8"), ContentType("text/html", ""),
                ContentType("text/plain", "latin1"), ContentType("<malformed>", "")} }
    \cup {[failed |-> TRUE, resp |-> Nil]}

\* bodies of responses: {} and a line break, three bytes that are no JSON
\* value, nothing, a long text, the number 123, and bodies the transport
\* breaks: after three bytes of a text, and after {} and a line break
ResponseBodies ==
    { BodyOf(3, 2), BodyOf(3, 0), NoBody, BodyOf(2000, 0), NumberBody(3),
      BrokenBody(3, 0, "next"), BrokenBody(3, 2, "last") }

\* a call of Call: the Caller (its index and its fields), the options and the
\* input of the call, and how far it is: "do" (the request is with
\* c.client.Do), "read" (the response is there, Call reads its body), "done"
\* (Call returned).  sent: the request went to c.client.Do; result: Call
\* returned a Response.
CallOf(i, c, options, in, step, handed, request, resp, hasResult, answer) ==
    [caller |-> i, method |-> c.method, out |-> c.out, options |-> c.options,
     callOptions |-> options, in |-> in, step |-> step, sent |-> handed, req |-> request,
     resp |-> resp, result |-> hasResult, resultOut |-> answer.out, err |-> answer.err]

\* the call cl after a further step
CallAt(cl, step, resp, hasResult, answer) ==
    [cl EXCEPT !.step = step, !.resp = resp, !.result = hasResult,
               !.resultOut = answer.out, !.err = answer.err]

\* c.Call(ctx, in, opts...) of the i-th Caller up to c.client.Do(req): the
\* options of the call are a clone of the Caller's with opts applied; Call
\* returns with an error when the request cannot be built, and hands the
\* request to the client otherwise
Call(i, in, opts) ==
    /\ client.step = "caller"
    /\ i \in DOMAIN client.callers
    /\ Len(client.calls) < MaxCalls
    /\ LET c       == client.callers[i]
           options == applyCallOptions(c.options, opts)
           built   == BuildRequest(c.method, options, in)
       IN  client' = [client EXCEPT !.calls = Append(@,
                         IF built.err # Nil
                         THEN CallOf(i, c, options, in, "done", FALSE, Nil, Nil, FALSE,
                                     [out |-> Nil, err |-> [kind |-> built.err]])
                         ELSE CallOf(i, c, options, in, "do", TRUE, built.req, Nil, FALSE,
                                     [out |-> Nil, err |-> [kind |-> "none"]]))]
    /\ UNCHANGED <<setupVars, reqVars, binder, workers, guard, inputs>>

\* c.client.Do(req) of the k-th call returns: with an error, and Call returns
\* a RequestError; or with a response, and Call goes on to read its body
\* unless the Content-Type, the copy of the prototype or the method HEAD ends
\* it before
ClientDo(k, transport) ==
    /\ client.step = "caller"
    /\ k \in DOMAIN client.calls
    /\ client.calls[k].step = "do"
    /\ LET cl == client.calls[k]
           resp == transport.resp
           reads ==
               /\ ~(resp.ct.media # ""
                     /\ validateContentType(resp.ct,
                            IF resp.status # 200 THEN {"application/json", "text/plain"}
                            ELSE {"application/json"}) # Nil)
               /\ \/ ToLower(resp.ct.media) = "text/plain"
                  \/ /\ cl.method # "HEAD"
                     /\ ~copyReflectValue(
                            IF resp.status # 200 /\ cl.options.ErrOut # NilProto
                            THEN cl.options.ErrOut ELSE cl.out).err
       IN  client' = [client EXCEPT !.calls[k] =
                         IF transport.failed
                         THEN CallAt(cl, "done", Nil, FALSE,
                                     [out |-> Nil, err |-> [kind |-> "RequestError"]])
                         ELSE IF reads
                         THEN CallAt(cl, "read", resp, FALSE,
                                     [out |-> Nil, err |-> [kind |-> "none"]])
                         ELSE CallAt(cl, "done", resp, TRUE,
                                     ReadResponse(cl, cl.callOptions, resp))]
    /\ UNCHANGED <<setupVars, reqVars, binder, workers, guard, inputs>>

\* the body of the response of the k-th call has arrived, as far as Call reads
\* it, and Call returns
ReadBody(k, body) ==
    /\ client.step = "caller"
    /\ k \in DOMAIN client.calls
    /\ client.calls[k].step = "read"
    /\ LET cl   == client.calls[k]
           resp == [cl.resp EXCEPT !.body = body]
       IN  client' = [client EXCEPT !.calls[k] =
                         CallAt(cl, "done", resp, TRUE, ReadResponse(cl, cl.callOptions, resp))]
    /\ UNCHANGED <<setupVars, reqVars, binder, workers, guard, inputs>>

(* ------------------------------------------------------------------ *)
(* Inputs and specifications                                           *)
(* ------------------------------------------------------------------ *)

Patterns == {"/a", "/b"}
Paths    == Patterns \cup {"/x"}

\* what a middleware or handler does when it runs
Programs == { << >>, <<"send">>, <<"next">>, <<"send", "next">>, <<"next", "send">>,
              <<"send", "send">> }

\* the state after NewHandler(opts...), for each opts of a set
NewHandlerState(rootOptionSets) ==
    /\ \E o \in rootOptionSets :
          LET a == NewOptions(NewHeap, newHandlerOptions)
          IN  /\ hOptions = a.ptr
              /\ heap = applyJoin(a.heap, a.ptr, o)
    /\ serveMux = [p \in Patterns |-> NilHandler]
    /\ nextId = 1
    /\ lastCall = NoCall
    /\ req = NoReq
    /\ phase = "idle"
    /\ cur = NilHandler
    /\ sent = 0
    /\ stack = << >>
    /\ inSend = FALSE
    /\ w = NewWriter
    /\ errs = << >>
    /\ panicMsg = Nil
    /\ wr = "none"
    /\ tm = "none"
    /\ respDone = FALSE
    /\ pending = NoPending
    /\ hist = NoHist

InitOf(rootOptionSets) ==
    /\ NewHandlerState(rootOptionSets)
    /\ binder = NoBinder
    /\ client = NoClient
    /\ workers = << >>
    /\ guard = NoGuard
    /\ inputs = NoInputs

(* Spec: setup and serving of requests, one request at a time, without a     *)
(* write deadline (WriteTimeout = 0, so send starts no deadline goroutine).  *)
(* The setup code calls Handle and Register between requests; SpecServe has   *)
(* them at any moment of a request.                                          *)

RootOptionSets ==
    { << >>,
      <<WithOnError, WithMiddleware(<<"A">>), WithOptionsHandler, WithNotFoundHandler>> }

PatternOptionSets == { << >>, <<WithMiddleware(<<"B">>), WithAllowEncoding(FALSE)>> }

\* the patterns the setup code of Spec handles, and the paths requests ask for
ServedPatterns == {"/a"}
ServedPaths    == {"/a", "/x"}

Registration(method, in, do, opts) == [method |-> method, in |-> in, do |-> do, opts |-> opts]

\* Register calls of the setup code
Registrations ==
    { Registration("GET", StructPtrProto, "T1", <<WithMiddleware(<<"C">>)>>),
      Registration("get", StructProto, Nil, << >>),
      Registration("POST", NilProto, "T2",
                   <<WithMiddleware(<<Nil>>), WithMaxRequestBodySize(2)>>),
      Registration("", StructPtrProto, "T3", << >>),
      Registration("HEAD", StructPtrProto, "T1", << >>) }

RequestMethods == {"GET", "HEAD", "POST", "DELETE", "OPTIONS", "TRACE"}
ContentTypes   == {ContentType("", ""), ContentType("application/json", "utf-8"),
                   ContentType("text/plain", "")}

\* a request for its path over HTTP/1.1, and requests with the request URI
\* "*" over HTTP/1.1 and over HTTP/1.0
RequestURIs ==
    { [star |-> FALSE, proto11 |-> TRUE], [star |-> TRUE, proto11 |-> TRUE],
      [star |-> TRUE, proto11 |-> FALSE] }

Binding(queryOK, body) == [queryOK |-> queryOK, body |-> body]

\* query strings and bodies of requests: a good query string and the body {}
Bindings == { Binding(TRUE, BodyOf(2, 2)) }

SendCall(out, code, extras) == [out |-> out, code |-> code, extras |-> extras]

\* send(out, code, extras...) calls the middlewares and handlers make
SendCalls ==
    { SendCall(OutString(<<"a", "\"">>), 200,
               << <<"X-Extra", "1">>, <<"Content-Length", "99">> >>),
      SendCall(OutChan, 500, << >>) }

\* Accept-Encoding headers of requests
AcceptEncodings ==
    { << >>,
      <<Offer("br", FALSE, TRUE, 0), Offer("gzip", TRUE, TRUE, 8)>>,
      <<Offer("deflate", FALSE, TRUE, 0), Offer("gzip", TRUE, TRUE, 90)>>,
      <<Offer("gzip", TRUE, FALSE, 0)>> }

Init == InitOf(RootOptionSets)

Next ==
    \/ \E p \in ServedPatterns, o \in PatternOptionSets : phase = "idle" /\ Handle(p, o)
    \/ \E p \in ServedPatterns, r \in Registrations :
          phase = "idle" /\ Register(p, r.method, r.in, r.do, r.opts)
    \/ \E m \in RequestMethods, p \in ServedPaths, u \in RequestURIs, ct \in ContentTypes,
          b \in Bindings : Serve(m, p, u.star, u.proto11, ct, b.queryOK, b.body)
    \/ PatternServeHTTP
    \/ MethodServeHTTP
    \/ ReadEnd(FALSE)
    \/ \E pr \in Programs : StartChain(pr)
    \/ \E a \in SendCalls, ae \in AcceptEncodings : CallSend(a.out, a.code, a.extras, ae)
    \/ \E ok \in BOOLEAN : WriterCopy(ok)
    \/ \E ok \in BOOLEAN : WriterClose(ok)
    \/ SendReturn
    \/ \E pr \in Programs : CallNext(pr)
    \/ Return
    \/ ChainEnd
    \/ Finish

Spec == Init /\ [][Next]_vars

(* SpecBind: setup and serving as in Spec, with few things a middleware or    *)
(* handler does and many request bodies; POST has a body limit of two bytes. *)
(* GET has a read deadline.  The setup code calls Handle and Register        *)
(* between requests, and a request is over once its read deadline goroutine  *)
(* has returned.                                                              *)

BindRegistrations ==
    { Registration("GET", StructPtrProto, "T1", <<WithReadTimeout(1)>>),
      Registration("POST", NilProto, "T2", <<WithMaxRequestBodySize(2)>>),
      Registration("", StructProto, "T3", <<WithMaxRequestBodySize(3)>>) }

\* an empty body, the body {}, the body {} followed by a space, a body of three
\* bytes that is one JSON object, a body of two bytes that is no JSON value, a
\* body of three digits; a body whose transport fails after the first byte of
\* an object, after an object and one more byte, and after two digits
BindBodies ==
    { NoBody, BodyOf(2, 2), BodyOf(3, 2), BodyOf(3, 3), BodyOf(2, 0), NumberBody(3),
      BrokenBody(1, 0, "next"), BrokenBody(3, 2, "last"),
      [NumberBody(2) EXCEPT !.broken = "next"] }

BindMethods == {"GET", "HEAD", "POST", "PUT", "DELETE"}

BindContentTypes ==
    { ContentType("", ""), ContentType("application/json", ""),
      ContentType("APPLICATION/JSON", "UTF-8"), ContentType("application/json", "latin1"),
      ContentType("text/plain", ""), ContentType("<malformed>", "") }

BindPrograms == { <<"send">>, <<"next">> }

NextBind ==
    \/ \E p \in ServedPatterns, o \in PatternOptionSets : phase = "idle" /\ Handle(p, o)
    \/ \E p \in ServedPatterns, r \in BindRegistrations :
          phase = "idle" /\ Register(p, r.method, r.in, r.do, r.opts)
    \/ \E m \in BindMethods, ct \in BindContentTypes, q \in BOOLEAN, b \in BindBodies :
          Serve(m, "/a", FALSE, TRUE, ct, q, b)
    \/ PatternServeHTTP
    \/ MethodServeHTTP
    \/ ReadGuard
    \/ \E aborted \in BOOLEAN : ReadEnd(aborted)
    \/ \E pr \in BindPrograms : StartChain(pr)
    \/ CallSend(OutNil, 200, << >>, << >>)
    \/ WriterCopy(TRUE)
    \/ WriterClose(TRUE)
    \/ SendReturn
    \/ \E pr \in BindPrograms : CallNext(pr)
    \/ Return
    \/ ChainEnd
    \/ guard.state \in {"none", "done"} /\ Finish

SpecBind == Init /\ [][NextBind]_vars

(* SpecReg: the setup calls alone, with every kind of method name and input  *)
(* prototype, on two patterns.                                               *)

AnyPatternOptionSets ==
    { << >>,
      <<WithMiddleware(<<"B">>), WithMiddleware(<<"B2">>), WithMaxRequestBodySize(1)>> }

AnyMethodOptions == <<WithMiddleware(<<"C">>), WithMiddleware(<<"D">>), WithReadTimeout(1)>>

AnyRegistrations ==
    { Registration("", StructPtrProto, "T1", << >>),
      Registration("", StringProto, "T1", << >>),
      Registration("GET", StructProto, "T1", << >>),
      Registration("get", StructPtrProto, "T2", AnyMethodOptions),
      Registration("GET", NilStructPtrProto, "T1", << >>),
      Registration("POST", NilProto, "T1", AnyMethodOptions),
      Registration("POST", ChanProto, "T1", << >>),
      Registration("POST", ErrFieldProto, "T1", << >>),
      Registration("PATCH", ErrFieldPtrProto, "T1", << >>),
      Registration("GET", ErrFieldProto, "T1", << >>),
      Registration("PUT", StringProto, "T1", <<WithMiddleware(<<"E">>), WithOnError>>),
      Registration("DELETE", StructProto, "T1", << >>),
      Registration("DELETE", NilProto, "T1", << >>),
      Registration("PATCH", NilStructPtrProto, "T1", << >>),
      Registration("HEAD", StructPtrProto, "T1", << >>),
      Registration("head", StructProto, "T2", AnyMethodOptions),
      Registration("OPTIONS", NilProto, "T1", << >>),
      Registration("FETCH", NilProto, "T1", << >>) }

NextReg ==
    \/ \E p \in Patterns, o \in AnyPatternOptionSets : Handle(p, o)
    \/ \E p \in Patterns, r \in AnyRegistrations :
          Register(p, r.method, r.in, r.do, r.opts)

SpecReg == Init /\ [][NextReg]_vars

\* The field binder, given each of its runs.  The parameter sets hold a value
\* for the field of a struct with one field, some a second value or a key of no
\* field; MixedStruct has fields the binder skips (the tag "-", an unexported
\* and an embedded field) and its parameter sets may lack a key.  The struct
\* values are what the texts denote and the values no text denotes (a time
\* holds a monotonic reading only when it was read from the clock, so the zero
\* time has none).
InitQuery ==
    LET RECURSIVE TextsOver(_, _)
        TextsOver(alphabet, n) ==
            IF n = 0 THEN { << >> }
            ELSE LET shorter == TextsOver(alphabet, n - 1)
                 IN  shorter \cup { Append(t, c) : t \in { u \in shorter : Len(u) = n - 1 },
                                                   c \in alphabet }
        null == <<"n", "u", "l", "l">>
        TextsOf(typ) ==
            CASE typ = "bool" ->
                   { <<"t", "r", "u", "e">>, <<"f", "a", "l", "s", "e">>, null,
                     <<" ", "t", "r", "u", "e">>, <<"T", "r", "u", "e">>, <<"1">>, << >> }
              [] typ \in DOMAIN IntRange \cup {"float64"} ->
                   TextsOver({"0", "1", "9", "-", ".", "e", " "}, MaxText) \cup {null}
              [] typ = "string" ->
                   { << >>, <<"a">>, <<"1", ".", "0">>, <<" ">>, null }
              [] typ = "bytes" ->
                   TextsOver({"A", "Q", "R", "="}, MaxText)
                       \cup { <<"Q", "Q", "=", "=", "\n">>, <<"Q", "Q", "^A", "=">>,
                              <<"Q", "R", "A", "Q", "Q", "R", "=", "=">>,
                              <<"Q", "Q", "=", "=", "Q", "Q", "=", "=">> }
              [] typ = "time" ->
                   { [day |-> day, hour |-> hour, frac |-> frac, zone |-> zone] :
                       day \in {1, 2}, hour \in {0, 23},
                       frac \in {<< >>, <<"5">>, <<"5", "0">>, <<"0">>},
                       zone \in {"Z", "+00:00", "+01:00", "-01:00", ""} }
        Decoded(typ) == { DecodeField(typ, t, ZeroOf(typ)).v : t \in TextsOf(typ) }
        ValuesOf(typ) ==
            CASE typ = "float64" ->
                   Decoded(typ) \cup {[kind |-> "nan", neg |-> FALSE, digits |-> << >>, pp |-> 0]}
              [] typ = "bytes" -> Decoded(typ) \cup {ZeroOf(typ)}
              [] typ = "time" ->
                   Decoded(typ)
                       \cup { [v EXCEPT !.mono = TRUE] : v \in Decoded(typ) \ {ZeroOf(typ)} }
              [] OTHER -> Decoded(typ)
        FieldTypes == {"bool", "int8", "uint8", "float64", "string", "bytes", "time"}
        OneField(typ, omitempty) == <<Field("f", typ, omitempty, TRUE, FALSE)>>
        MixedStruct ==
            << Field("a", "int8", FALSE, TRUE, FALSE),
               Field("", "int8", FALSE, TRUE, FALSE),
               Field("c", "string", TRUE, TRUE, FALSE),
               Field("d", "bool", FALSE, FALSE, FALSE),
               Field("e", "bool", FALSE, TRUE, TRUE) >>
        Run(dir, st, a) == [NoBinder EXCEPT !.dir = dir, !.st = st, !.a = a]
    IN  /\ NewHandlerState({<< >>})
        /\ client = NoClient
        /\ workers = << >>
        /\ guard = NoGuard
        /\ inputs = NoInputs
        /\ \/ \E typ \in FieldTypes, o \in BOOLEAN : \E t \in TextsOf(typ) :
                binder = Run("query", OneField(typ, o), [n \in {"f"} |-> <<t>>])
           \/ \E typ \in {"bool", "string"} : \E t \in TextsOf(typ) :
                binder = Run("query", OneField(typ, FALSE), [n \in {"f"} |-> <<t, t>>])
           \/ \E t \in TextsOf("string") :
                binder = Run("query", OneField("string", FALSE), [n \in {"f", "x"} |-> <<t>>])
           \/ \E ks \in {{"a", "c"}, {"a"}, {"a", "c", "d", "e"}},
                 t \in { <<"1">>, <<"0", "1">>, <<"-", "0">>, << >> } :
                binder = Run("query", MixedStruct, [n \in ks |-> <<t>>])
           \/ \E typ \in FieldTypes, o \in BOOLEAN : \E v \in ValuesOf(typ) :
                binder = Run("struct", OneField(typ, o), <<v>>)
           \/ \E a \in {-1, 0}, c \in {<< >>, <<"a">>} :
                binder = Run("struct", MixedStruct, <<a, 1, c, TRUE, TRUE>>)
           \/ \E typ \in DOMAIN PtrElem, o \in BOOLEAN :
                \E v \in {NilPtr} \cup { PtrTo(x) : x \in {ZeroOf(PtrElem[typ])}
                                                     \cup (IF typ = "ptrstring" THEN {<<"a">>} ELSE {}) } :
                binder = Run("encode",
                             <<Field("a", "int8", FALSE, TRUE, FALSE),
                               Field("p", typ, o, TRUE, FALSE)>>,
                             <<1, v>>)

SpecQuery == InitQuery /\ [][ValuesToStruct \/ StructToValues]_vars

(* SpecServe: Handle and Register called at any moment of the requests being  *)
(* served, between the route lookup of a request, the read of the method     *)
(* table, the binding and the steps of the chain.                            *)
ServeRegistrations ==
    { Registration("GET", StructPtrProto, "T1", << >>),
      Registration("POST", NilProto, "T2", << >>),
      Registration("", StructPtrProto, "T3", << >>) }

SpecServe ==
    /\ InitOf({ << >>, <<WithOnError>> })
    /\ [][ \/ Handle("/a", << >>)
           \/ \E r \in ServeRegistrations : Register("/a", r.method, r.in, r.do, r.opts)
           \/ \E m \in {"GET", "HEAD", "POST"} :
                 Serve(m, "/a", FALSE, TRUE, ContentType("", ""), TRUE, BodyOf(2, 2))
           \/ PatternServeHTTP
           \/ MethodServeHTTP
           \/ ReadEnd(FALSE)
           \/ StartChain(<<"send">>)
           \/ CallSend(OutNil, 200, << >>, << >>)
           \/ WriterCopy(TRUE)
           \/ WriterClose(TRUE)
           \/ SendReturn
           \/ Return
           \/ ChainEnd
           \/ Finish ]_vars

(* SpecTimer: one request served by a Handler with a write deadline           *)
(* (WriteTimeout > 0): send starts the deadline goroutine next to the write   *)
(* goroutine.  Time passes, so the deadline fires unless respCtx is done      *)
(* before; a goroutine that can run does run; a write to the transport may    *)
(* block for ever, so the steps of the write goroutine are not fair.          *)
SpecTimer ==
    /\ InitOf({ <<WithWriteTimeout(1)>>,
                <<WithOnError, WithWriteTimeout(1), WithMiddleware(<<"A">>)>> })
    /\ [][ \/ Handle("/a", << >>)
           \/ Register("/a", "GET", StructPtrProto, "T1", << >>)
           \/ \E m \in {"GET", "HEAD"} :
                 Serve(m, "/a", FALSE, TRUE, ContentType("", ""), TRUE, NoBody)
           \/ PatternServeHTTP
           \/ MethodServeHTTP
           \/ \E pr \in {<<"send">>, <<"next">>, <<"send", "send">>} : StartChain(pr)
           \/ \E ae \in {<< >>, <<Offer("gzip", FALSE, TRUE, 0)>>} :
                 CallSend(OutNil, 200, << >>, ae)
           \/ \E ok \in BOOLEAN : WriterCopy(ok)
           \/ \E ok \in BOOLEAN : WriterClose(ok)
           \/ TimerFire
           \/ TimerExit
           \/ SendReturn
           \/ \E pr \in {<<"send">>, << >>} : CallNext(pr)
           \/ Return
           \/ ChainEnd ]_vars
    /\ WF_vars(TimerFire)
    /\ WF_vars(TimerExit)
    /\ WF_vars(SendReturn)

(* SpecRace: one request whose middlewares and handler start goroutines that  *)
(* call send next to the calls of send they make themselves.                  *)
SpecRace ==
    /\ InitOf({ << >>, <<WithMiddleware(<<"A">>)>> })
    /\ [][ \/ Handle("/a", << >>)
           \/ Register("/a", "GET", StructPtrProto, "T1", << >>)
           \/ \E m \in {"GET", "HEAD"} :
                 Serve(m, "/a", FALSE, TRUE, ContentType("", ""), TRUE, NoBody)
           \/ PatternServeHTTP
           \/ MethodServeHTTP
           \/ \E pr \in { <<"go", "go", "send">>, <<"go", "send">>, <<"send", "go">>,
                           <<"go", "next">> } : StartChain(pr)
           \/ Go
           \/ \E i \in 1..MaxWorkers : Worker(i)
           \/ CallSend(OutNil, 200, << >>, << >>)
           \/ WriterCopy(TRUE)
           \/ WriterClose(TRUE)
           \/ SendReturn
           \/ \E pr \in { <<"send">>, <<"go">> } : CallNext(pr)
           \/ Return
           \/ ChainEnd ]_vars

(* SpecRead: requests bound from the body at method handlers with a read      *)
(* deadline; the deadline goroutine, its timer and Decode run interleaved.   *)
(* The goroutine and its timer always get to run.                             *)
SpecRead ==
    /\ InitOf({ << >>, <<WithOnError, WithMiddleware(<<"A">>)>> })
    /\ [][ \/ Handle("/a", << >>)
           \/ \E mt \in {"POST", "GET"} :
                 Register("/a", mt, StructPtrProto, "T1", <<WithReadTimeout(1)>>)
           \/ \E mt \in {"POST", "GET"}, b \in {BodyOf(3, 2), BodyOf(3, 0)} :
                 Serve(mt, "/a", FALSE, TRUE, ContentType("application/json", ""), TRUE, b)
           \/ PatternServeHTTP
           \/ MethodServeHTTP
           \/ ReadGuard
           \/ \E aborted \in BOOLEAN : ReadEnd(aborted)
           \/ \E pr \in { <<"send">>, <<"next">> } : StartChain(pr)
           \/ CallSend(OutNil, 200, << >>, << >>)
           \/ WriterCopy(TRUE)
           \/ WriterClose(TRUE)
           \/ SendReturn
           \/ CallNext(<<"send">>)
           \/ Return
           \/ ChainEnd ]_vars
    /\ WF_vars(ReadGuard)

(* SpecEnc: GET and HEAD requests to one handler that allows compression,     *)
(* with many Accept-Encoding headers; q is written as ten times its value.    *)
EncodingOffers ==
    { << >>,
      <<Offer("gzip", FALSE, TRUE, 0)>>,
      <<Offer("deflate", FALSE, TRUE, 0)>>,
      <<Offer("gzip", TRUE, TRUE, 8)>>,
      <<Offer("deflate", TRUE, TRUE, 95)>>,
      <<Offer("gzip", TRUE, TRUE, 100)>>,
      <<Offer("deflate", TRUE, TRUE, -5)>>,
      <<Offer("gzip", TRUE, TRUE, -10)>>,
      <<Offer("gzip", TRUE, FALSE, 0)>>,
      <<Offer("br", FALSE, TRUE, 0), Offer("gzip", TRUE, TRUE, 30)>>,
      <<Offer("br", TRUE, FALSE, 0), Offer("gzip", FALSE, TRUE, 0)>>,
      <<Offer("br", TRUE, FALSE, 0)>>,
      <<Offer("br", TRUE, TRUE, 10), Offer("identity", FALSE, TRUE, 0)>>,
      <<Offer("deflate", TRUE, TRUE, 50), Offer("gzip", TRUE, FALSE, 0)>>,
      <<Offer("deflate", TRUE, TRUE, 1), Offer("gzip", TRUE, TRUE, 10)>>,
      <<Offer("gzip", TRUE, TRUE, 200), Offer("deflate", FALSE, TRUE, 0)>> }

SpecEnc ==
    /\ InitOf({ << >>, <<WithOnError>> })
    /\ [][ \/ Handle("/a", << >>)
           \/ Register("/a", "GET", StructPtrProto, "T1", << >>)
           \/ \E m \in {"GET", "HEAD"} :
                 Serve(m, "/a", FALSE, TRUE, ContentType("", ""), TRUE, NoBody)
           \/ PatternServeHTTP
           \/ MethodServeHTTP
           \/ StartChain(<<"send">>)
           \/ \E ae \in EncodingOffers : CallSend(OutNil, 200, << >>, ae)
           \/ WriterCopy(TRUE)
           \/ WriterClose(TRUE)
           \/ SendReturn
           \/ Return
           \/ ChainEnd
           \/ Finish ]_vars

(* SpecInput: one GET handler registered with a struct pointer prototype that *)
(* holds defaults, in fields JSON carries and in fields it does not, and      *)
(* requests bound from their query strings whose handlers change their input, *)
(* interleaved.                                                               *)
InputStruct ==
    << Field("a", "int8", FALSE, TRUE, FALSE),
       Field("s", "string", TRUE, TRUE, FALSE),
       Field("", "int8", FALSE, TRUE, FALSE),
       Field("u", "int8", FALSE, FALSE, FALSE),
       Field("t", "time", FALSE, TRUE, FALSE) >>

InitInput ==
    /\ NewHandlerState({<< >>})
    /\ binder = NoBinder
    /\ client = NoClient
    /\ workers = << >>
    /\ guard = NoGuard
    /\ \E v \in { <<0, << >>, 0, 0, ZeroOf("time")>>,
                   <<5, <<"x">>, 7, 3, [inst |-> 1, ns |-> << >>, off |-> 0, mono |-> TRUE]>>,
                   <<5, << >>, 0, 3, ZeroOf("time")>> } :
          inputs = [NoInputs EXCEPT !.st = InputStruct, !.objs = <<v>>, !.proto = v]

SpecInput ==
    /\ InitInput
    /\ [][ \/ \E values \in { [n \in {} |-> << >>], [n \in {"a"} |-> << <<"1">> >>],
                               [n \in {"s"} |-> << <<"y">> >>], [n \in {"a"} |-> << <<"x">> >>],
                               [n \in {"a", "u"} |-> << <<"2">> >>] } : BindInput(values)
           \/ \E i \in 1..MaxRequests : \E fv \in { <<1, 9>>, <<4, 8>> } :
                 MutateInput(i, fv[1], fv[2]) ]_vars

\* NewFactory(client, u, opts...): the options of the Factory are new options
\* with opts applied
FactoryOptionSets ==
    { << >>,
      <<[name |-> "ErrOut", v |-> StructPtrProto]>>,
      <<[name |-> "ForceBody", v |-> TRUE],
        [name |-> "RequestHeader", v |-> <<ContentType("application/json", "")>>]>> }

InitFactory ==
    /\ NewHandlerState({<< >>})
    /\ binder = NoBinder
    /\ workers = << >>
    /\ guard = NoGuard
    /\ inputs = NoInputs
    /\ \E opts \in FactoryOptionSets :
          client = [NoClient EXCEPT !.factory = applyCallOptions(newCallOptions, opts)]

\* options the Callers of SpecFactory are created with
NewCallerOptionSets ==
    { << >>,
      <<[name |-> "ForceBody", v |-> TRUE]>>,
      <<[name |-> "ErrOut", v |-> StructProto]>>,
      <<[name |-> "MaxResponseBodySize", v |-> 1]>>,
      <<[name |-> "ForceBody", v |-> TRUE], [name |-> "ForceBody", v |-> FALSE]>>,
      <<[name |-> "RequestHeader", v |-> <<ContentType("text/plain", "")>>],
        [name |-> "MaxResponseBodySize", v |-> 1]>>,
      <<[name |-> "AdditionalRequestHeader", v |-> <<ContentType("text/plain", "")>>],
        [name |-> "AdditionalRequestHeader", v |-> <<ContentType("text/html", "")>>]>> }

\* one Factory, made with options, creates up to MaxCallers Callers
SpecFactory ==
    /\ InitFactory
    /\ [][ \E method \in {"GET", "POST", "OPTIONS"}, opts \in NewCallerOptionSets :
              FactoryCaller(method, StructPtrProto, opts) ]_vars

\* a Caller made by a Factory and one Call of it
SpecCall ==
    /\ InitOf({<< >>})
    /\ [][ \/ \E method \in CallerMethods, out \in CallerOuts, opts \in CallerOptionSets :
                client.callers = << >> /\ FactoryCaller(method, out, opts)
           \/ \E in \in CallInputs, opts \in CallOptionSets :
                client.calls = << >> /\ Call(1, in, opts)
           \/ \E transport \in Responses : ClientDo(1, transport)
           \/ \E body \in ResponseBodies : ReadBody(1, body) ]_vars

\* one Factory whose Callers are created and called side by side: a call waits
\* for its response while Callers are created and other calls begin and end
SpecCalls ==
    /\ InitOf({<< >>})
    /\ [][ \/ \E opts \in { << >>, <<[name |-> "ErrOut", v |-> StructPtrProto]>> } :
                FactoryCaller("GET", StructPtrProto, opts)
           \/ \E i \in 1..MaxCallers,
                 opts \in { << >>, <<[name |-> "MaxResponseBodySize", v |-> 1]>> } :
                Call(i, CHOOSE in \in CallInputs : in.kind = "invalid", opts)
           \/ \E k \in 1..MaxCalls,
                 transport \in { t \in Responses :
                                   t.failed \/ (t.resp.status = 400 /\ t.resp.ct.media = "") } :
                ClientDo(k, transport)
           \/ \E k \in 1..MaxCalls : ReadBody(k, BodyOf(3, 2)) ]_vars

(* ------------------------------------------------------------------ *)
(* Properties                                                          *)
(* ------------------------------------------------------------------ *)

Range(f) == {f[i] : i \in DOMAIN f}

IsPrefix(a, b) == Len(a) <= Len(b) /\ SubSeq(b, 1, Len(a)) = a

\* the middlewares a sequence of options adds, in the order given
RECURSIVE AddedMiddlewares(_)
AddedMiddlewares(opts) ==
    IF opts = << >> THEN << >>
    ELSE (IF Head(opts).opt = "Middleware" THEN Head(opts).ms ELSE << >>)
         \o AddedMiddlewares(Tail(opts))

\* C1: a request that reaches the pattern handler of its path (a method the root
\* handler routes, not the "*" request URI) is dispatched to exactly the method
\* handler registered under its method, whatever else is registered for the
\* pattern; if neither its method nor the method-agnostic "" has a handler it is
\* answered 405, the error goes to the on-error callback (when one is set), and
\* no middleware and no terminal handler runs.
C1_Dispatch ==
    [][ ( /\ phase = "pattern"
          /\ phase' # "pattern"
          /\ RootRoute(req.method) = "mux"
          /\ ~req.star
          /\ req.path \in DOMAIN serveMux
          /\ serveMux[req.path] # NilHandler )
        => LET ph    == serveMux[req.path]
               exact == ph.methodHandlers[req.method]
               any   == ph.methodHandlers[""]
           IN  /\ exact # NilHandler => cur' = exact
               /\ (exact = NilHandler /\ any = NilHandler) =>
                     /\ w'.code = 405
                     /\ errs' = IF Deref(ph.options).OnError THEN <<"method not registered">>
                                ELSE << >>
                     /\ cur' = NilHandler
                     /\ stack' = << >>
                     /\ hist'.ran = {}
                     /\ phase' = "done" ]_vars

\* a POST request runs the chain of the POST handler while GET has another one
C1_Witness ==
    /\ phase = "chain"
    /\ req.method = "POST"
    /\ req.path = "/a"
    /\ cur.id # 0
    /\ cur = serveMux["/a"].methodHandlers["POST"]
    /\ serveMux["/a"].methodHandlers["GET"].id \notin {0, cur.id}

\* C2: a call of send after a first call of send on the same request writes
\* nothing (no status, no header, no body) and panics with "already sent".
C2_SecondSend ==
    [][ (hist'.sendCalls > hist.sendCalls /\ hist.sendCalls >= 1)
        => /\ w' = w
           /\ phase' = "panic"
           /\ panicMsg' = "already sent" ]_vars

\* the second send of a request paniced after the first had answered 200
C2_Witness ==
    /\ phase = "panic"
    /\ panicMsg = "already sent"
    /\ hist.sendCalls = 2
    /\ w.code = 200
    /\ w.nWriteHeader = 1

\* C3 as stated: once send was called for a HEAD request, no body was written.
C3_HeadNeverBody ==
    (req.method = "HEAD" /\ hist.sender # 0) => w.body = << >>

\* C3: once send has selected the response transform, for a HEAD request no
\* body is written and no write goroutine is started, whatever the output is.
\* For HEAD as for any other method, an output that serializes gives the
\* status send was given, Content-Type application/json; charset=utf-8, the
\* extra headers merged in, and a Content-Length of the serialization plus
\* newline exactly when no compression was negotiated; an output that does
\* not serialize makes send panic with no status, no Content-Type and no
\* Content-Length written.
C3_HeadNoBody ==
    (hist.sender # 0 /\ hist.enc # Nil)
    => /\ req.method = "HEAD" => (w.body = << >> /\ wr = "none")
       /\ IF Marshal(hist.out).err
          THEN /\ panicMsg = "unable to encode output"
               /\ w.nWriteHeader = 0
               /\ w.header["Content-Type"] = << >>
               /\ w.header["Content-Length"] = << >>
               /\ w.body = << >>
          ELSE /\ w.code = hist.code
               /\ w.nWriteHeader = 1
               /\ w.header["Content-Type"] = <<"application/json; charset=utf-8">>
               /\ \A i \in DOMAIN hist.extras :
                     hist.extras[i][1] \notin {"Content-Type", "Content-Length"}
                     => hist.extras[i][2] \in Range(w.header[hist.extras[i][1]])
               /\ w.header["Content-Length"] =
                     IF hist.enc = "identity"
                     THEN <<ToString(Len(Marshal(hist.out).data) + 1)>>
                     ELSE << >>

\* send was called for a HEAD request with an output that does not serialize:
\* it paniced and nothing was written
C3_WitnessUnserializable ==
    /\ req.method = "HEAD"
    /\ hist.sender # 0
    /\ hist.enc # Nil
    /\ Marshal(hist.out).err
    /\ panicMsg = "unable to encode output"
    /\ w.body = << >>

\* a HEAD request was answered by send: status 200, the length of "a\"" as JSON
\* plus newline, no body
C3_Witness ==
    /\ req.method = "HEAD"
    /\ phase = "done"
    /\ hist.sender # 0
    /\ w.code = 200
    /\ w.header["Content-Length"] = <<"6">>
    /\ w.header["X-Extra"] = <<"1">>
    /\ w.body = << >>

\* C4: when the first middleware of a chain won the send and has not called
\* next, nothing else of the chain (no later middleware, no terminal handler)
\* has run.
C4_ShortCircuit ==
    LET head == Len(CurDo)
    IN  (cur # NilHandler /\ hist.sender = head /\ head \notin hist.nexted)
        => hist.ran = {head}

\* a chain of at least two middlewares is over: the first one sent and returned
C4_Witness ==
    /\ phase = "done"
    /\ cur # NilHandler
    /\ Len(MiddlewaresOf(cur.options)) >= 2
    /\ hist.sender = Len(CurDo)
    /\ hist.nexted = {}
    /\ hist.ran = {Len(CurDo)}

\* C5: the middlewares of a handler are those of the root Handler, then those
\* the pattern's options added, then those the method's options added, each in
\* the order given; they run in that order, each one inside the next call of
\* the one before it, and the terminal handler innermost.
C5_Order ==
    /\ \A p \in Patterns :
          serveMux[p] # NilHandler =>
             /\ IsPrefix(MiddlewaresOf(hOptions), MiddlewaresOf(serveMux[p].options))
             /\ \A k \in TableKeys :
                   serveMux[p].methodHandlers[k] # NilHandler =>
                      IsPrefix(MiddlewaresOf(serveMux[p].options),
                               MiddlewaresOf(serveMux[p].methodHandlers[k].options))
    /\ (lastCall.op = "Handle" /\ lastCall.result = "ok") =>
          MiddlewaresOf(serveMux[lastCall.pattern].options) =
             MiddlewaresOf(hOptions) \o AddedMiddlewares(lastCall.opts)
    /\ (lastCall.op = "Register" /\ lastCall.result = "ok") =>
          MiddlewaresOf(serveMux[lastCall.pattern].methodHandlers[lastCall.method].options) =
             MiddlewaresOf(serveMux[lastCall.pattern].options)
                \o AddedMiddlewares(lastCall.opts)
    /\ \A j \in DOMAIN stack :
          stack[j].fn = IF j <= Len(MiddlewaresOf(cur.options))
                        THEN MiddlewaresOf(cur.options)[j]
                        ELSE cur.do

\* root middleware A, pattern middleware B, method middleware C and the
\* terminal handler are running, nested in this order
C5_Witness ==
    /\ Len(stack) = 4
    /\ stack[1].fn = "A"
    /\ stack[2].fn = "B"
    /\ stack[3].fn = "C"
    /\ stack[4].fn = "T1"

\* C6: once send has been called, no step starts a middleware or the terminal
\* handler: a call of next returns without running anything.
C6_NextAfterSend ==
    [][ sent = 1 => (Len(stack') <= Len(stack) /\ hist'.ran \subseteq hist.ran) ]_vars

\* the first middleware of the GET chain sent, then called next, and nothing
\* else ran
C6_Witness ==
    /\ phase = "done"
    /\ req.method = "GET"
    /\ cur # NilHandler
    /\ cur.do = "T1"
    /\ Len(CurDo) > 1
    /\ hist.sender = Len(CurDo)
    /\ Len(CurDo) \in hist.nexted
    /\ hist.ran = {Len(CurDo)}

\* C7: a Register call for a method that is bound for the pattern already
\* panics and leaves the method tables as they were.
C7_DuplicateRegister ==
    [][ (lastCall'.op = "Register" /\ lastCall'.prior # 0)
        => (lastCall'.result # "ok" /\ lastCall'.ret = 0 /\ serveMux' = serveMux) ]_vars

\* GET was registered again: the call paniced, the first handler is still bound
C7_Witness ==
    /\ lastCall.op = "Register"
    /\ lastCall.method = "GET"
    /\ lastCall.result = "method already registered"
    /\ lastCall.prior # 0
    /\ serveMux[lastCall.pattern].methodHandlers["GET"].id = lastCall.prior

\* C8 as stated: a Handle call for a pattern that has a pattern handler returns
\* that pattern handler.
C8_HandleIdempotent ==
    (lastCall.op = "Handle" /\ lastCall.prior # 0) => lastCall.ret = lastCall.prior

\* C9: HEAD is bound for a pattern exactly when GET is, and to the same method
\* handler.
C9_HeadIffGet ==
    \A p \in Patterns :
        serveMux[p] # NilHandler =>
            /\ (serveMux[p].methodHandlers["HEAD"] # NilHandler
                  <=> serveMux[p].methodHandlers["GET"] # NilHandler)
            /\ serveMux[p].methodHandlers["HEAD"] = serveMux[p].methodHandlers["GET"]

\* GET was registered for a pattern, and HEAD is bound to its handler
C9_Witness ==
    /\ lastCall.op = "Register"
    /\ lastCall.method = "GET"
    /\ lastCall.result = "ok"
    /\ serveMux[lastCall.pattern].methodHandlers["GET"].id = lastCall.ret
    /\ serveMux[lastCall.pattern].methodHandlers["HEAD"].id = lastCall.ret

RegisterVerbs == {"GET", "POST", "PUT", "PATCH", "DELETE"}

\* C10 as stated: a Register call whose upper-cased method is not one of GET,
\* POST, PUT, PATCH, DELETE panics.
C10_OnlyVerbs ==
    (lastCall.op = "Register" /\ lastCall.method \notin RegisterVerbs)
    => lastCall.result # "ok"

\* C10: a Register call whose upper-cased method is neither one of GET, POST,
\* PUT, PATCH, DELETE nor the empty, method-agnostic name panics and binds
\* nothing.
C10_VerbsOrAny ==
    [][ (lastCall'.op = "Register" /\ lastCall'.method \notin RegisterVerbs \cup {""})
        => (lastCall'.result # "ok" /\ lastCall'.ret = 0 /\ serveMux' = serveMux) ]_vars

\* HEAD was registered with a struct prototype: the call paniced
C10_Witness ==
    /\ lastCall.op = "Register"
    /\ lastCall.method = "HEAD"
    /\ lastCall.result = "method not allowed"

BodyVerbs == {"POST", "PUT", "PATCH"}

\* C11 as stated: a Register call for POST, PUT or PATCH, a method that is not
\* bound yet, succeeds whatever the input prototype is.
C11_BodyVerbsAnyInput ==
    (lastCall.op = "Register" /\ lastCall.method \in BodyVerbs /\ lastCall.prior = 0)
    => lastCall.result = "ok"

\* C11: a Register call for GET, DELETE or "" panics and binds nothing when the
\* input prototype is the untyped nil or neither a struct nor a pointer to a
\* struct; a Register call for POST, PUT or PATCH, a method that is not bound
\* yet, succeeds exactly when the copy of the input prototype succeeds: for
\* the untyped nil, for a nil pointer, and for every other value that
\* json.Marshal serializes and json.Unmarshal reads back into a new value of
\* its type.  For every other prototype Register panics with "unable to copy
\* input" and binds nothing, whatever the method.
C11_InputShape ==
    [][ lastCall'.op = "Register" =>
          LET in     == lastCall'.in
              copied == \/ in.kind = "invalid"
                        \/ in.ptr /\ in.isnil
                        \/ in.json = "ok"
          IN
          /\ (lastCall'.method \in {"", "GET", "DELETE"} /\ in.kind # "struct")
                => (lastCall'.result # "ok" /\ lastCall'.ret = 0 /\ serveMux' = serveMux)
          /\ (lastCall'.method \in BodyVerbs /\ lastCall'.prior = 0 /\ copied)
                => /\ lastCall'.result = "ok"
                   /\ serveMux'[lastCall'.pattern].methodHandlers[lastCall'.method].id
                         = lastCall'.ret
                   /\ lastCall'.ret # 0
          /\ ~copied
                => /\ lastCall'.result = "unable to copy input"
                   /\ lastCall'.ret = 0
                   /\ serveMux' = serveMux ]_vars

\* POST was registered with a struct that holds a non-nil error: its
\* serialization does not unmarshal, and the call paniced
C11_WitnessUnmarshal ==
    /\ lastCall.op = "Register"
    /\ lastCall.method = "POST"
    /\ lastCall.in = ErrFieldProto
    /\ lastCall.result = "unable to copy input"

\* POST was registered with the untyped nil
C11_WitnessNil ==
    /\ lastCall.op = "Register"
    /\ lastCall.method = "POST"
    /\ lastCall.in = NilProto
    /\ lastCall.result = "ok"

\* the method-agnostic handler was registered with a string prototype: the call
\* paniced
C11_Witness ==
    /\ lastCall.op = "Register"
    /\ lastCall.method = ""
    /\ lastCall.in = StringProto
    /\ lastCall.result = "input must be struct or struct pointer"

\* the configuration a scope sees through its pointer: the scalar fields and
\* the middlewares of its slice
ScopeView(hp, p) == [hp.opts[p] EXCEPT !.Middlewares = Elems(hp, @)]

\* C12: no step changes the configuration of a scope that exists: when Handle
\* or Register creates a child scope and applies options to it, the root's,
\* every pattern's and every method's middleware list and scalar fields are
\* what they were.
C12_ScopesIsolated ==
    [][ \A p \in Scopes(serveMux, hOptions) :
            ScopeView(heap', p) = ScopeView(heap, p) ]_vars

\* a method scope was created with options that append middlewares and set a
\* scalar field, next to another method scope of the same pattern
C12_Witness ==
    /\ lastCall.op = "Register"
    /\ lastCall.result = "ok"
    /\ lastCall.opts = AnyMethodOptions
    /\ LET ph == serveMux[lastCall.pattern]
           mh == ph.methodHandlers[lastCall.method]
       IN  /\ MiddlewaresOf(mh.options) = MiddlewaresOf(ph.options) \o <<"C", "D">>
           /\ Deref(mh.options).ReadTimeout = 1
           /\ Deref(ph.options).ReadTimeout = 0
           /\ MiddlewaresOf(ph.options) = <<"A", "B", "B2">>
           /\ \E k \in TableKeys :
                 /\ ph.methodHandlers[k] # NilHandler
                 /\ ph.methodHandlers[k].id # mh.id

\* the Content-Type headers a handler accepts: absent, or application/json with
\* no charset or with utf-8 or ascii, in any letter case
AcceptedContentTypes ==
    { ContentType(m, c) : m \in {"application/json", "APPLICATION/JSON"},
                          c \in {"", "utf-8", "UTF-8", "ascii"} }
    \cup { ContentType("", "") }

\* the request being bound is bound from its query string
FromQuery == req'.ct.media = "" /\ req'.method \in {"GET", "HEAD", "DELETE"}

\* the method handler a request was dispatched to ends the binding of its
\* input: it answers, panics or enters the chain
Dispatched == phase \in {"method", "read"} /\ phase' \notin {"method", "read"}

\* C13: when a request dispatched to a method handler has a Content-Type that
\* is not accepted, or is bound from a query string that is malformed, or is
\* bound from a body that cannot be read (the transport fails, or the read
\* deadline closes the body, before the JSON value is complete) or that is not
\* JSON for the input (no JSON value, a value the body limit cuts, a number
\* for a struct), the error goes to the on-error callback (when one is set),
\* the answer is 400, and no middleware, no terminal handler and no send runs.
C13_BindingFails ==
    [][ LET body  == req'.body
            limit == Deref(cur'.options).MaxRequestBodySize
            \* the bytes of the body that arrive before the limit, the end of
            \* the body or the failure of the transport
            got   == IF limit > 0 /\ limit < body.len THEN limit ELSE body.len
            \* the transport fails before the limit or the end of the body
            fails == body.broken # "none" /\ (limit = 0 \/ limit > body.len
                                              \/ (limit = body.len /\ body.broken = "last"))
            unreadable == \/ guard'.aborted /\ phase = "read"
                          \/ fails /\ (body.value = 0 \/ body.value > got \/ body.number)
            malformed  == \/ body.value = 0
                          \/ body.value > got /\ ~body.number
                          \/ body.number /\ got = 0
                          \/ body.number /\ cur'.in.kind = "struct"
        IN
        ( /\ Dispatched
          /\ \/ req'.ct \notin AcceptedContentTypes
             \/ FromQuery /\ ~req'.queryOK
             \/ ~FromQuery /\ (unreadable \/ malformed) )
        => /\ w'.code = 400
           /\ w'.nWriteHeader = 1
           /\ Len(errs') = IF Deref(cur'.options).OnError THEN 1 ELSE 0
           /\ phase' = "done"
           /\ stack' = << >>
           /\ hist'.ran = {}
           /\ hist'.sendCalls = 0
           /\ sent' = 0
           /\ req'.In = NoIn ]_vars

\* a request with charset latin1 was answered 400 and reported, nothing ran
C13_WitnessContentType ==
    /\ phase = "done"
    /\ cur # NilHandler
    /\ req.ct = ContentType("application/json", "latin1")
    /\ w.code = 400
    /\ errs = <<"invalid content type">>
    /\ hist.ran = {}
    /\ sent = 0

\* a request whose body failed in the transport after its first byte was
\* answered 400 and reported, nothing ran
C13_Witness ==
    /\ phase = "done"
    /\ cur # NilHandler
    /\ req.bound = "body"
    /\ req.body = BrokenBody(1, 0, "next")
    /\ w.code = 400
    /\ errs = <<"unable to decode request body">>
    /\ hist.ran = {}
    /\ sent = 0

\* a request with a malformed query string was answered 400, nothing ran
C13_WitnessQuery ==
    /\ phase = "done"
    /\ req.bound = "query"
    /\ ~req.queryOK
    /\ w.code = 400
    /\ hist.ran = {}

\* a request whose body the read deadline closed under Decode was answered
\* 400, nothing ran
C13_WitnessDeadline ==
    /\ phase = "done"
    /\ req.bound = "body"
    /\ guard.aborted
    /\ req.body = BodyOf(2, 2)
    /\ w.code = 400
    /\ hist.ran = {}

\* a request with a body that the limit cuts inside its JSON value was
\* answered 400
C13_WitnessLimit ==
    /\ phase = "done"
    /\ cur # NilHandler
    /\ req.method = "POST"
    /\ req.body = BodyOf(3, 3)
    /\ Deref(cur.options).MaxRequestBodySize = 2
    /\ w.code = 400
    /\ hist.ran = {}

\* a request with a number as body for a struct input was answered 400
C13_WitnessType ==
    /\ phase = "done"
    /\ cur # NilHandler
    /\ req.body = NumberBody(3)
    /\ cur.in = StructProto
    /\ w.code = 400
    /\ hist.ran = {}

\* C14 as stated: a POST request dispatched to a handler with a body limit
\* N > 0 and a body longer than N is answered 400, and nothing of the chain
\* runs.
C14_OversizeRejected ==
    ( /\ cur # NilHandler
      /\ phase \notin {"method", "read"}
      /\ req.method = "POST"
      /\ Deref(cur.options).MaxRequestBodySize > 0
      /\ req.body.len > Deref(cur.options).MaxRequestBodySize )
    => (w.code = 400 /\ hist.ran = {})

\* C15: a request dispatched to a method handler, with an accepted Content-Type
\* or none, is bound from the query string exactly when its method is GET, HEAD
\* or DELETE and it has no Content-Type; then the chain starts (the request
\* goes on to req.In = in and the entry of the chain) iff the query string is
\* well-formed, whatever the body; otherwise it is bound from the body, and the
\* chain starts iff the body decodes, that is iff Decode reads a JSON value for
\* the input and no read deadline closes the body under it, whatever the query
\* string.
C15_BindingSource ==
    [][ (Dispatched /\ req'.ct \in AcceptedContentTypes /\ phase' # "panic")
        => IF FromQuery
           THEN /\ req'.bound = "query"
                /\ phase' = "bound" <=> req'.queryOK
           ELSE /\ req'.bound = "body"
                /\ phase' = "bound" <=>
                      /\ DecodeBody(req'.body, Deref(cur'.options).MaxRequestBodySize,
                                    copyReflectValue(cur'.in).elem)
                      /\ ~(phase = "read" /\ guard'.aborted) ]_vars

\* a DELETE request with a Content-Type and a malformed query string was bound
\* from its body and reached the chain
C15_Witness ==
    /\ phase = "chain"
    /\ req.method = "DELETE"
    /\ req.ct = ContentType("application/json", "")
    /\ ~req.queryOK
    /\ req.bound = "body"
    /\ hist.ran # {}

\* C16 as stated: when the winning send call was given an output that
\* encoding/json cannot serialize, the answer is 500 and the failure was
\* reported to the on-error callback (when one is set).
C16_UnserializableIs500 ==
    (hist.sender # 0 /\ hist.enc # Nil /\ Marshal(hist.out).err)
    => /\ w.code = 500
       /\ Deref(cur.options).OnError => errs # << >>

\* the compressor the Accept-Encoding alternatives name first, when every q up
\* to it is a number and its own q, if any, truncates to a level from 0 to 9
\* (Nil: none)
Offered(offers) ==
    LET named == {i \in DOMAIN offers : offers[i].key \in {"gzip", "deflate"}}
    IN  IF named = {} THEN Nil
        ELSE LET i == CHOOSE k \in named : \A j \in named : k <= j
             IN  IF /\ \A j \in 1..i : offers[j].hasq => offers[j].qok
                    /\ offers[i].hasq => (offers[i].q10 >= 0 /\ offers[i].q10 < 100)
                 THEN offers[i].key
                 ELSE Nil

\* C17: when a handler that allows compression has answered a request, other
\* than HEAD, whose Accept-Encoding names gzip or deflate, and no write failed,
\* the response has Content-Encoding set to that compressor and its body is one
\* complete stream of that compressor over the JSON serialization of the output
\* followed by a newline.
C17_Compressed ==
    ( /\ phase = "done"
      /\ hist.sender # 0
      /\ Deref(cur.options).AllowEncoding
      /\ Offered(hist.offers) # Nil
      /\ req.method # "HEAD"
      /\ ~hist.werr )
    => /\ w.header["Content-Encoding"] = <<Offered(hist.offers)>>
       /\ Len(w.body) = 1
       /\ w.body[1].enc = Offered(hist.offers)
       /\ w.body[1].data = Marshal(hist.out).data \o <<"\n">>
       /\ w.body[1].closed

\* a GET request offering br and gzip was answered with a gzip stream
C17_Witness ==
    /\ phase = "done"
    /\ req.method = "GET"
    /\ hist.sender # 0
    /\ Offered(hist.offers) = "gzip"
    /\ w.code = 200
    /\ w.header["Content-Encoding"] = <<"gzip">>
    /\ w.header["Content-Length"] = << >>
    /\ Len(w.body) = 1
    /\ w.body[1].enc = "gzip"
    /\ w.body[1].closed

\* the fields of a struct type the binder binds, and two struct values that
\* hold the same in them: byte sequences with the same bytes (nil or not),
\* times at the same instant and offset (with a monotonic reading or not),
\* floats that are == (a zero of either sign equals a zero)
SameStruct(st, x, y) ==
    \A i \in 1..Len(st) :
        ~Skipped(st[i]) =>
            CASE st[i].typ = "bytes" -> x[i].b = y[i].b
              [] st[i].typ = "time"  -> [x[i] EXCEPT !.mono = FALSE] = [y[i] EXCEPT !.mono = FALSE]
              [] st[i].typ = "float64" ->
                    x[i] = y[i] \/ (IsZero("float64", x[i]) /\ IsZero("float64", y[i]))
              [] OTHER               -> x[i] = y[i]

HasEveryField(st, values) ==
    \A i \in 1..Len(st) : ~Skipped(st[i]) => st[i].name \in DOMAIN values

\* C18 as stated: a parameter set with a value for every field, decoded by
\* valuesToStruct and encoded again by structToValues, is the parameter set
\* it was; and a struct encoded and decoded again holds the same.
C18_RoundTripEqual ==
    (binder.step = 2 /\ binder.err = Nil)
        => IF binder.dir = "query"
           THEN HasEveryField(binder.st, binder.a) => binder.c = binder.a
           ELSE SameStruct(binder.st, binder.c, binder.a)

\* C18: a parameter set decoded by valuesToStruct and encoded again by
\* structToValues gives a parameter set that decodes to the same struct (the
\* texts may differ: 1.0 comes back as 1); a struct encoded by structToValues
\* and decoded into a zero struct holds the same in every bound field, and
\* encoding it again gives the same parameter set, text for text.
C18_RoundTripValues ==
    (binder.step = 2 /\ binder.err = Nil)
        => IF binder.dir = "query"
           THEN /\ valuesToStruct(binder.c, binder.st, ZeroStruct(binder.st)).err = Nil
                /\ SameStruct(binder.st,
                              valuesToStruct(binder.c, binder.st, ZeroStruct(binder.st)).v,
                              binder.b)
           ELSE /\ SameStruct(binder.st, binder.c, binder.a)
                /\ structToValues(binder.st, binder.c) = Conv(binder.b)

\* a parameter set with a value for every field came back with another text
C18_Witness ==
    /\ binder.dir = "query"
    /\ binder.step = 2
    /\ binder.err = Nil
    /\ HasEveryField(binder.st, binder.a)
    /\ binder.c # binder.a

\* C19 -- Caller.Call chooses the call style by the rule of the server: a request
\* it sends carries the input in the query string, with no body and no
\* Content-Type, exactly when the method is GET, HEAD or DELETE and force-body
\* mode is off, and otherwise as a JSON body with the Content-Type
\* application/json; charset=utf-8; the server binds a request of the first
\* style from the query and one of the second from the body.
C19_SameRule ==
    \A k \in DOMAIN client.calls :
        LET cl == client.calls[k]
        IN
            (cl.step = "done" /\ cl.sent) =>
                /\ cl.req.query <=> (cl.method \in {"GET", "HEAD", "DELETE"}
                                            /\ ~cl.callOptions.ForceBody)
                /\ cl.req.query => (cl.req.body = NoBody /\ cl.req.ct.media = "")
                /\ ~cl.req.query => /\ cl.req.ct = ContentType("application/json", "utf-8")
                                        /\ cl.req.body.value > 0
                /\ cl.req.query <=> BindsFromQuery(cl.req.method, cl.req.ct)

\* C20 -- When the status of the response is not 200 and the Caller has an
\* error-output prototype, Call never returns a nil error; when the response
\* is JSON (no Content-Type or application/json), the method is not HEAD, the
\* prototype can be copied and the body decodes, the error is the fresh copy
\* of the prototype the body was decoded into, which is also result.Out.
C20_ErrOutIsError ==
    \A k \in DOMAIN client.calls :
        LET cl == client.calls[k]
        IN
            (cl.step = "done" /\ cl.result /\ cl.resp.status # 200
               /\ cl.options.ErrOut # NilProto) =>
                /\ cl.err.kind # "none"
                /\ ( /\ cl.resp.ct.media \in {"", "application/json"}
                     /\ cl.method # "HEAD"
                     /\ ~copyReflectValue(cl.options.ErrOut).err
                     /\ DecodeBody(cl.resp.body, cl.callOptions.MaxResponseBodySize,
                                copyReflectValue(cl.options.ErrOut).elem) )
                   => /\ cl.err = [kind |-> "ErrOut",
                                       out |-> [proto |-> cl.options.ErrOut, fresh |-> TRUE,
                                                decoded |-> TRUE]]
                      /\ cl.resultOut = cl.err.out

C20_Witness ==
    \E k \in DOMAIN client.calls :
        LET cl == client.calls[k]
        IN
            /\ cl.step = "done"
            /\ cl.result
            /\ cl.resp.status = 400
            /\ cl.options.ErrOut = StructPtrProto
            /\ cl.err.kind = "ErrOut"
            /\ cl.resultOut.decoded

\* C21 -- Call takes a text/plain response only when the status is not 200, and
\* then, once it has read the body, returns a PlainTextError with the text of
\* the body (what io.LimitReader(rd, 1024) lets through) and decodes nothing:
\* the one other outcome is the error of the transport that broke the read,
\* returned as unable to read response body; a text/plain response with
\* status 200, a media type other than application/json and text/plain, and a
\* charset other than ascii and utf-8 give an InvalidContentTypeError and no
\* decoded output.
C21_PlainText ==
    \A k \in DOMAIN client.calls :
        LET cl    == client.calls[k]
            max   == cl.callOptions.MaxResponseBodySize
            limit == IF max > 0 /\ max < 1024 THEN max ELSE 1024
            taken == /\ ToLower(cl.resp.ct.media) = "text/plain"
                     /\ ToLower(cl.resp.ct.charset) \in {"", "ascii", "utf-8"}
                     /\ cl.resp.status # 200
        IN
            (cl.step = "done" /\ cl.result /\ cl.resp.ct.media # "") =>
                /\ cl.err.kind = "PlainTextError"
                      <=> (taken /\ ~ReadFails(cl.resp.body, limit))
                /\ cl.err.kind = "unable to read response body"
                      <=> (taken /\ ReadFails(cl.resp.body, limit))
                /\ cl.err.kind = "PlainTextError"
                      => /\ cl.err.len = IF cl.resp.body.len > limit THEN limit
                                         ELSE cl.resp.body.len
                         /\ ~cl.resultOut.fresh
                /\ taken => ~cl.resultOut.fresh
                /\ ( \/ ToLower(cl.resp.ct.media) = "text/plain" /\ cl.resp.status = 200
                     \/ ToLower(cl.resp.ct.media) \notin {"application/json", "text/plain"}
                     \/ ToLower(cl.resp.ct.charset) \notin {"", "ascii", "utf-8"} )
                   => /\ cl.err.kind = "InvalidContentTypeError"
                      /\ ~cl.resultOut.fresh

C21_Witness ==
    \E k \in DOMAIN client.calls :
        LET cl == client.calls[k]
        IN
            /\ cl.step = "done"
            /\ cl.result
            /\ cl.resp.status = 400
            /\ cl.resp.ct.media = "text/plain"
            /\ cl.resp.body.len = 2000
            /\ cl.err.kind = "PlainTextError"

\* the read of a text/plain body broke, and Call returned the error of the read
C21_WitnessBroken ==
    \E k \in DOMAIN client.calls :
        LET cl == client.calls[k]
        IN
            /\ cl.step = "done"
            /\ cl.result
            /\ cl.resp.status = 400
            /\ cl.resp.ct.media = "text/plain"
            /\ cl.resp.body.broken # "none"
            /\ cl.err.kind = "unable to read response body"
            /\ ~cl.resultOut.fresh

\* C22 -- When no error-output prototype is configured, neither on the Caller
\* nor among the options of the call, a response with a status other than 200
\* that is JSON (no Content-Type or application/json) and whose body decodes
\* is decoded into a copy of the output prototype: Call returns it in
\* result.Out with a nil error.
C22_BestEffort ==
    \A k \in DOMAIN client.calls :
        LET cl == client.calls[k]
        IN
            (cl.step = "done" /\ cl.result /\ cl.resp.status # 200
               /\ cl.options.ErrOut = NilProto
               /\ cl.callOptions.ErrOut = NilProto
               /\ cl.resp.ct \in {ContentType("", ""), ContentType("application/json", "utf-8")}
               /\ cl.method # "HEAD"
               /\ DecodeBody(cl.resp.body, cl.callOptions.MaxResponseBodySize,
                             copyReflectValue(cl.out).elem))
                => /\ cl.err.kind = "none"
                   /\ cl.resultOut = [proto |-> cl.out, fresh |-> TRUE, decoded |-> TRUE]

\* a Call with no error prototype on the Caller and none among its options was
\* answered 400 with a JSON body: the body was decoded into a copy of the
\* output prototype and the error is nil
C22_Witness ==
    \E k \in DOMAIN client.calls :
        LET cl == client.calls[k]
        IN
            /\ cl.step = "done"
            /\ cl.result
            /\ cl.resp.status = 400
            /\ cl.options.ErrOut = NilProto
            /\ cl.callOptions.ErrOut = NilProto
            /\ cl.out = StructPtrProto
            /\ cl.resp.ct = ContentType("application/json", "utf-8")
            /\ cl.resultOut = [proto |-> StructPtrProto, fresh |-> TRUE, decoded |-> TRUE]
            /\ cl.err.kind = "none"

\* C24 -- For every request, on every path through the three ServeHTTP methods,
\* WriteHeader has taken effect on the response writer at most once (by an
\* explicit call or by the first Write).
C24_HeaderOnce == w.nWriteHeader <= 1

\* the negotiation inside send failed and was answered 400; a second send of
\* the same request was turned down
C24_Witness ==
    /\ phase = "panic"
    /\ panicMsg = "already sent"
    /\ hist.sendCalls = 2
    /\ hist.enc = Nil
    /\ w.code = 400
    /\ w.nWriteHeader = 1

\* C25 -- When a middleware or the terminal handler of a request has been
\* invoked, the input of the request has been bound, from the query string or
\* from the body, the binding has succeeded and req.In holds the copy of the
\* input prototype that was bound: binding is over before the chain starts.
\* While the request is dispatched, bound or decoded, no middleware and no
\* handler has been invoked, nothing is on the call stack of the chain and send
\* has not been called; req.In is assigned only once binding has succeeded.
C25_BoundBeforeChain ==
    /\ (phase = "chain" \/ hist.ran # {} \/ stack # << >>) =>
          /\ req.In = InOf(cur.in, req.bound)
          /\ req.bound \in {"query", "body"}
          /\ req.bound = "query" =>
                /\ req.queryOK
                /\ req.ct.media = ""
                /\ req.method \in {"GET", "HEAD", "DELETE"}
                /\ cur.in.kind = "struct"
          /\ req.bound = "body" =>
                /\ ~(req.ct.media = "" /\ req.method \in {"GET", "HEAD", "DELETE"})
                /\ req.body.value > 0
                /\ LET limit == Deref(cur.options).MaxRequestBodySize
                   IN  IF req.body.number
                       THEN /\ cur.in.kind = "invalid"
                            /\ ~ReadFails(req.body, limit)
                       ELSE /\ cur.in.kind \in {"invalid", "struct"}
                            /\ req.body.value <= req.body.len
                            /\ limit > 0 => req.body.value <= limit
    /\ phase \in {"pattern", "method", "read", "bound"} =>
          /\ hist.ran = {}
          /\ hist.sendCalls = 0
          /\ stack = << >>
          /\ sent = 0
    /\ phase \in {"idle", "pattern", "method", "read"} => req.In = NoIn
    /\ req.In.set => phase \in {"bound", "chain", "done", "panic"}

\* a POST request bound from a body that fits the limit is in its chain, and
\* req.In holds what was decoded into the copy of the untyped nil
C25_Witness ==
    /\ phase = "chain"
    /\ req.method = "POST"
    /\ req.bound = "body"
    /\ req.body = BodyOf(3, 2)
    /\ req.In = InOf(NilProto, "body")
    /\ hist.ran # {}

\* a GET request was bound from its query string and req.In is assigned, a
\* pointer to the copy of the struct; the chain is not entered yet
C25_WitnessBound ==
    /\ phase = "bound"
    /\ req.method = "GET"
    /\ req.In = InOf(StructPtrProto, "query")
    /\ req.In.ptr
    /\ hist.ran = {}
    /\ stack = << >>

\* C30 -- In the response of a send that wrote the status line, Content-Length
\* is present exactly when the identity transform was selected, and is then the
\* length of the JSON serialization with its trailing newline; with gzip or
\* deflate it is absent, also when the extra headers supplied one, and
\* Content-Encoding names the transform.
C30_ContentLength ==
    (hist.sender # 0 /\ hist.enc # Nil /\ ~Marshal(hist.out).err) =>
        IF hist.enc = "identity"
        THEN w.header["Content-Length"] = <<ToString(Len(Marshal(hist.out).data) + 1)>>
        ELSE /\ w.header["Content-Length"] = << >>
             /\ hist.enc \in {"gzip", "deflate"}
             /\ \E i \in DOMAIN w.header["Content-Encoding"] :
                   w.header["Content-Encoding"][i] = hist.enc

\* a send with a Content-Length among its extra headers chose gzip
C30_Witness ==
    /\ hist.sender # 0
    /\ hist.enc = "gzip"
    /\ \E i \in DOMAIN hist.extras : hist.extras[i][1] = "Content-Length"
    /\ w.code = 200
    /\ w.header["Content-Length"] = << >>

\* C26 -- With a write deadline, send returns to its caller once the body write
\* and close are over or the deadline has fired, whichever is first: a send
\* that waits returns eventually, also when the write blocks for ever; once the
\* write goroutine has ended, send can return whether or not the deadline has
\* fired; and the deadline goroutine ends in both cases.
C26_SendReturns ==
    /\ inSend ~> ~inSend
    /\ (tm = "wait") ~> (tm \in {"fired", "done"})
    /\ [](wr = "done" => respDone)
    /\ []((inSend /\ respDone) => ENABLED SendReturn)

\* send has returned after the deadline fired, while the write goroutine was
\* still copying
C26_WitnessFired ==
    /\ hist.sender # 0
    /\ ~inSend
    /\ tm = "fired"
    /\ wr = "copy"

\* C27 as stated: when the write deadline has fired before the body write and
\* close were over, an error has been reported to the on-error callback (when
\* one is set), at the latest when the write goroutine has ended.
C27_TimeoutReported ==
    (tm = "fired" /\ wr = "done" /\ Deref(cur.options).OnError) => errs # << >>

\* C28 as stated: once send has returned to its caller, no step writes to the
\* response writer of the request or closes its transform.
C28_NoWriteAfterReturn ==
    [][ (hist.sender # 0 /\ ~inSend) => w' = w ]_vars

\* the callers of send that have won the sent flag: goroutines and, with a
\* position of the chain as sender, the goroutine of the request
Passed(ws, h) ==
    Cardinality({ i \in DOMAIN ws : ws[i] \in {"won", "sent"} })
        + (IF h.sender > 0 THEN 1 ELSE 0)

\* C23 -- Under every interleaving of the callers of send of one request, the
\* sent flag goes from 0 to 1 at most once and never back, exactly one caller
\* has passed it once it is 1 and none before, the response writer is changed
\* only once a caller has passed it, and a caller that is turned down has not
\* touched the response writer.
C23_OneSender ==
    [][ /\ sent \in {0, 1}
        /\ sent' \in {0, 1}
        /\ sent' >= sent
        /\ Passed(workers', hist') = sent'
        /\ (phase = "chain" /\ w' # w) => Passed(workers, hist') = 1
        /\ \A i \in DOMAIN workers :
              (workers[i] = "ready" /\ workers'[i] = "rejected") => w' = w ]_vars

\* two goroutines and the handler called send: one goroutine won and wrote
\* the response, the other was turned down, the handler panicked
C23_Witness ==
    /\ Len(workers) = 2
    /\ \E i, j \in DOMAIN workers : workers[i] = "sent" /\ workers[j] = "rejected"
    /\ panicMsg = "already sent"
    /\ w.nWriteHeader = 1

\* C29 -- With a read deadline on a request bound from its body, the deadline
\* goroutine closes the body only if the deadline elapsed before decoding had
\* completed; if decoding completed first the goroutine ends without closing
\* the body; a read aborted by the goroutine is answered 400 and the handler
\* is not invoked.
C29_ReadGuard ==
    /\ guard.closed => guard.timely
    /\ (guard.state = "done" /\ guard.completed /\ ~guard.timely) => ~guard.closed
    /\ guard.aborted => (w.code = 400 /\ phase = "done" /\ hist.ran = {})

\* C29, the part on termination: once started the deadline goroutine ends.
C29_GuardEnds == (guard.state # "none") ~> (guard.state = "done")

\* C29, the part on an aborted read: it is answered 400 with the handler not
\* invoked, and the body is closed only by a goroutine whose timer was ready.
C29_AbortedRead ==
    /\ guard.aborted => (w.code = 400 /\ phase = "done" /\ hist.ran = {})
    /\ guard.closed => guard.elapsed

\* decoding completed, the deadline elapsed after that, and the goroutine
\* closed the body all the same
C29_LateClose ==
    guard.closed /\ guard.completed /\ ~guard.timely /\ ~guard.aborted /\ phase = "chain"

\* the position of the first alternative named gzip or deflate (0: none)
FirstNamed(offers) ==
    LET named == {i \in DOMAIN offers : offers[i].key \in {"gzip", "deflate"}}
    IN  IF named = {} THEN 0 ELSE CHOOSE k \in named : \A j \in named : k <= j

\* an alternative before position i (all of them when i = 0) has a q that is
\* not a number
BadQBefore(offers, i) ==
    \E j \in DOMAIN offers : (i = 0 \/ j < i) /\ offers[j].hasq /\ ~offers[j].qok

\* q truncated to an integer, q given as ten times its value
LevelOfQ(q10) == IF q10 >= 0 THEN q10 \div 10 ELSE 0 - ((0 - q10) \div 10)

\* the answer of send to an Accept-Encoding it does not accept
EncodingRefused ==
    /\ w.code = 400
    /\ w.body = <<Chunk("identity", 0, <<"invalid accept encoding", "\n">>)>>
    /\ w.header["Content-Encoding"] = << >>
    /\ hist.enc = Nil
    /\ wr = "none"
    /\ Deref(cur.options).OnError => errs = <<"unable to get content encoder">>

\* C31 -- When send negotiates the transform and reaches the first gzip or
\* deflate alternative: if the alternative has a q, the compression level is q
\* truncated to an integer and must lie in 0..9 (q=0.8 gives level 0); a q that
\* is not a number or a level out of range makes send answer 400 "invalid
\* accept encoding", reported to the on-error callback, with nothing of the
\* handler's output written; without q the level is the default level.
C31_QIsLevel ==
    LET offers == hist.offers
        i      == FirstNamed(offers)
    IN  ( /\ hist.sender # 0
          /\ cur # NilHandler
          /\ Deref(cur.options).AllowEncoding
          /\ i # 0
          /\ ~BadQBefore(offers, i) )
        => IF offers[i].hasq /\ (~offers[i].qok \/ LevelOfQ(offers[i].q10) \notin 0..9)
           THEN EncodingRefused
           ELSE /\ hist.enc = offers[i].key
                /\ w.code = hist.code
                /\ wr # "none" =>
                      pending.level = IF offers[i].hasq THEN LevelOfQ(offers[i].q10)
                                      ELSE DefaultCompression
                /\ \A c \in 1..Len(w.body) :
                      w.body[c].level = IF offers[i].hasq THEN LevelOfQ(offers[i].q10)
                                        ELSE DefaultCompression

\* gzip;q=0.8 was answered with a complete gzip stream written at level 0
C31_Witness ==
    /\ phase = "done"
    /\ hist.offers = <<Offer("gzip", TRUE, TRUE, 8)>>
    /\ Len(w.body) = 1
    /\ w.body[1].enc = "gzip"
    /\ w.body[1].level = 0
    /\ w.body[1].closed

\* deflate;q=9.5 was written at level 9, and gzip;q=10 was answered 400
C31_WitnessRefused ==
    /\ hist.offers = <<Offer("gzip", TRUE, TRUE, 100)>>
    /\ hist.sender # 0
    /\ EncodingRefused

\* C32 as stated -- The transform is decided by list position alone: the first
\* alternative named gzip or deflate is selected (its own q acting as the
\* level) whatever the q of later alternatives, alternatives with other names
\* are skipped, and identity is used when no alternative is named gzip or
\* deflate.
C32_ByPosition ==
    LET offers == hist.offers
        i      == FirstNamed(offers)
    IN  ( /\ hist.sender # 0
          /\ cur # NilHandler
          /\ Deref(cur.options).AllowEncoding )
        => IF i = 0
           THEN hist.enc = "identity" /\ w.header["Content-Encoding"] = << >>
           ELSE (offers[i].hasq => (offers[i].qok /\ LevelOfQ(offers[i].q10) \in 0..9))
                => (hist.enc = offers[i].key /\ w.header["Content-Encoding"] = <<offers[i].key>>)

\* C32 -- The alternatives are examined in list order up to the first one named
\* gzip or deflate: if one of them with another name has a q that is not a
\* number, send answers 400 "invalid accept encoding"; otherwise that first
\* gzip or deflate alternative is selected (its own q acting as the level)
\* whatever the q of later alternatives, and identity is used when no
\* alternative is named gzip or deflate.
C32_ByPositionParsed ==
    LET offers == hist.offers
        i      == FirstNamed(offers)
    IN  ( /\ hist.sender # 0
          /\ cur # NilHandler
          /\ Deref(cur.options).AllowEncoding )
        => IF BadQBefore(offers, i)
           THEN EncodingRefused
           ELSE IF i = 0
           THEN hist.enc = "identity" /\ w.header["Content-Encoding"] = << >>
           ELSE (offers[i].hasq => (offers[i].qok /\ LevelOfQ(offers[i].q10) \in 0..9))
                => (hist.enc = offers[i].key /\ w.header["Content-Encoding"] = <<offers[i].key>>)

\* "deflate;q=0.1, gzip;q=1" was answered with deflate
C32_Witness ==
    /\ hist.offers = <<Offer("deflate", TRUE, TRUE, 1), Offer("gzip", TRUE, TRUE, 10)>>
    /\ hist.sender # 0
    /\ hist.enc = "deflate"
    /\ w.header["Content-Encoding"] = <<"deflate">>
    /\ w.code = 200

\* "br;q=x, gzip" was answered 400
C32_WitnessRefused ==
    /\ hist.offers = <<Offer("br", TRUE, FALSE, 0), Offer("gzip", FALSE, TRUE, 0)>>
    /\ hist.sender # 0
    /\ EncodingRefused

\* what C33 says of OPTIONS and of the methods outside the known set, on the
\* step that serves request r with root options o: delegated to the options
\* handler, or reported and answered 405, with no route looked up and no
\* pattern or method handler invoked
RootAnswers(r, o, wv, es, mh, ran) ==
    /\ r.method = "OPTIONS" =>
          /\ mh = NilHandler
          /\ ran = {}
          /\ IF o.OptionsHandler
             THEN wv = [NewWriter EXCEPT !.delegated = "OptionsHandler"] /\ es = << >>
             ELSE /\ wv.code = 405
                  /\ wv.delegated = Nil
                  /\ es = IF o.OnError THEN <<"method handler not defined">> ELSE << >>
    /\ r.method \notin {"HEAD", "GET", "POST", "PUT", "PATCH", "DELETE", "OPTIONS"} =>
          /\ mh = NilHandler
          /\ ran = {}
          /\ wv.code = 405
          /\ wv.delegated = Nil
          /\ es = IF o.OnError THEN <<"method not allowed">> ELSE << >>

\* request r was handed to the route table: the pattern handler of its path
\* is called with nothing written (next: where the request is after the step),
\* or no pattern matched and it went to the not-found handler or 404
RouteLookedUp(r, o, wv, es, mh, next) ==
    LET ph == MuxHandler(serveMux, r.path)
    IN  /\ mh = NilHandler
        /\ IF ph = NilHandler
           THEN /\ next = "done"
                /\ IF o.NotFoundHandler THEN wv.delegated = "NotFoundHandler"
                   ELSE wv.code = 404 /\ wv.delegated = Nil
           ELSE /\ next = "pattern"
                /\ wv = NewWriter
                /\ es = << >>

\* C33 as stated -- OPTIONS goes to the configured options handler or, without
\* one, is reported and answered 405; a method outside HEAD, GET, POST, PUT,
\* PATCH, DELETE, OPTIONS is reported and answered 405; in neither case is a
\* route looked up or a handler invoked; every other method is delegated to
\* the route table lookup.
C33_RootDispatch ==
    [][ (phase = "idle" /\ phase' # "idle") =>
          /\ RootAnswers(req', Deref(hOptions), w', errs', cur', hist'.ran)
          /\ req'.method \in {"HEAD", "GET", "POST", "PUT", "PATCH", "DELETE"} =>
                RouteLookedUp(req', Deref(hOptions), w', errs', cur', phase') ]_vars

\* C33 -- As C33_RootDispatch, except that a request of one of the other
\* methods whose request URI is "*" is not delegated to the route table: it is
\* answered 400, with Connection: close when the request is of HTTP/1.1 or
\* later, nothing is reported and no handler is invoked.
C33_RootDispatchNoStar ==
    [][ (phase = "idle" /\ phase' # "idle") =>
          /\ RootAnswers(req', Deref(hOptions), w', errs', cur', hist'.ran)
          /\ req'.method \in {"HEAD", "GET", "POST", "PUT", "PATCH", "DELETE"} =>
                IF req'.star
                THEN /\ w' = WriteHeader([NewWriter EXCEPT !.header["Connection"] =
                                                IF req'.proto11 THEN <<"close">> ELSE << >>],
                                           400)
                     /\ errs' = << >>
                     /\ cur' = NilHandler
                     /\ hist'.ran = {}
                ELSE RouteLookedUp(req', Deref(hOptions), w', errs', cur', phase') ]_vars

\* an OPTIONS request for a handled pattern went to the options handler, and
\* nothing of the pattern ran
C33_Witness ==
    /\ phase = "done"
    /\ req.method = "OPTIONS"
    /\ req.path = "/a"
    /\ MuxHandler(serveMux, "/a") # NilHandler
    /\ w.delegated = "OptionsHandler"
    /\ cur = NilHandler
    /\ hist.ran = {}

\* a GET request for "*" over HTTP/1.0 was answered 400 without a Connection
\* header
C33_WitnessStar ==
    /\ phase = "done"
    /\ req.method = "GET"
    /\ req.star
    /\ ~req.proto11
    /\ w.code = 400
    /\ w.header["Connection"] = << >>
    /\ errs = << >>

\* a TRACE request was answered 405 and reported
C33_WitnessUnknown ==
    /\ phase = "done"
    /\ req.method = "TRACE"
    /\ w.code = 405
    /\ errs = <<"method not allowed">>

\* C34 -- A request that reaches the pattern handler of its path is given to the
\* handler bound to its method when the method table, as the pattern handler
\* reads it, has one, and to the method-agnostic "" handler exactly when it
\* has none (for every such method, HEAD included when GET is not registered);
\* while the chain runs, the terminal handler on the stack is the one of the
\* method handler the request was given to, so the "" handler never runs for a
\* request whose method had its own handler.
C34_ExactFirst ==
    [][ /\ ( /\ phase = "pattern"
             /\ phase' # "pattern"
             /\ RootRoute(req.method) = "mux"
             /\ ~req.star
             /\ MuxHandler(serveMux, req.path) # NilHandler )
           => LET ph    == MuxHandler(serveMux, req.path)
                  exact == ph.methodHandlers[req.method]
                  any   == ph.methodHandlers[""]
              IN  /\ exact # NilHandler => (cur' = exact /\ cur' # any)
                  /\ (exact = NilHandler /\ any # NilHandler) => cur' = any
                  /\ (any # NilHandler /\ cur' = any) => exact = NilHandler
        /\ phase' = "chain" =>
              \A k \in DOMAIN stack' : stack'[k].d = 1 => stack'[k].fn = cur'.do ]_vars

\* a HEAD request runs the chain of the "" handler: GET is not registered for
\* the pattern, POST is
C34_Witness ==
    /\ phase = "chain"
    /\ req.method = "HEAD"
    /\ MuxHandler(serveMux, req.path) # NilHandler
    /\ MuxHandler(serveMux, req.path).methodHandlers["GET"] = NilHandler
    /\ MuxHandler(serveMux, req.path).methodHandlers["HEAD"] = NilHandler
    /\ MuxHandler(serveMux, req.path).methodHandlers["POST"] # NilHandler
    /\ cur # NilHandler
    /\ cur = MuxHandler(serveMux, req.path).methodHandlers[""]
    /\ \E k \in DOMAIN stack : stack[k].d = 1 /\ stack[k].fn = "T3"

\* a HEAD request runs the chain of the "" handler it was given to, and HEAD
\* has got a handler of its own since the method table was read
C34_WitnessLate ==
    /\ phase = "chain"
    /\ req.method = "HEAD"
    /\ cur = MuxHandler(serveMux, req.path).methodHandlers[""]
    /\ MuxHandler(serveMux, req.path).methodHandlers["HEAD"] \notin {NilHandler, cur}

\* a POST request runs the chain of the POST handler while "" has a handler too
C34_WitnessExact ==
    /\ phase = "chain"
    /\ req.method = "POST"
    /\ cur = MuxHandler(serveMux, req.path).methodHandlers["POST"]
    /\ MuxHandler(serveMux, req.path).methodHandlers[""] \notin {NilHandler, cur}

\* C37 -- structToValues of a struct with a nil pointer field ends without
\* failure and the parameter set has no key of that field, whether the field
\* is tagged omitempty or not.
C37_NilPointerOmitted ==
    (binder.dir = "encode" /\ binder.step = 1) =>
        /\ binder.err = Nil
        /\ \A i \in DOMAIN binder.st :
              ( /\ binder.st[i].typ \in DOMAIN PtrElem
                /\ ~Skipped(binder.st[i])
                /\ binder.a[i].nil )
              => binder.st[i].name \notin DOMAIN binder.b

\* C37, the part that holds: a nil pointer field tagged omitempty is left out
\* and the encoding ends without failure.
C37_NilPointerOmitempty ==
    (binder.dir = "encode" /\ binder.step = 1) =>
        \A i \in DOMAIN binder.st :
            ( /\ binder.st[i].typ \in DOMAIN PtrElem
              /\ binder.st[i].omitempty
              /\ binder.a[i].nil )
            => (binder.err = Nil /\ binder.st[i].name \notin DOMAIN binder.b)

\* a nil *string without omitempty: structToValues panicked
C37_NilStringPanics ==
    /\ binder.dir = "encode"
    /\ binder.step = 1
    /\ binder.st[2].typ = "ptrstring"
    /\ ~binder.st[2].omitempty
    /\ binder.a[2].nil
    /\ binder.err = "panic: nil pointer dereference"

\* C35 as stated -- Request processing never changes the registered prototype;
\* what one request does to its input changes the input of no other request;
\* and the input of each request starts, before it is bound, from a value
\* equal to the prototype as it was registered.
C35_FreshEqualCopy ==
    [][ /\ inputs'.objs # << >> => inputs'.objs[1] = inputs'.proto
        /\ inputs'.proto = inputs.proto
        /\ \A j \in DOMAIN inputs.reqs :
              j # inputs'.last => inputs'.objs[inputs.reqs[j].at] = inputs.objs[inputs.reqs[j].at]
        /\ \A j \in DOMAIN inputs'.reqs : inputs'.reqs[j].start = inputs'.proto ]_vars

\* C35 -- As C35_FreshEqualCopy, with the start value equal to the prototype in
\* the fields that its JSON serialization carries (exported, not tagged "-";
\* a time without its monotonic reading) and zero in the other fields.
C35_FreshJsonCopy ==
    [][ /\ inputs'.objs # << >> => inputs'.objs[1] = inputs'.proto
        /\ inputs'.proto = inputs.proto
        /\ \A j \in DOMAIN inputs.reqs :
              j # inputs'.last => inputs'.objs[inputs.reqs[j].at] = inputs.objs[inputs.reqs[j].at]
        /\ \A j \in DOMAIN inputs'.reqs : \A f \in DOMAIN inputs'.st :
              LET fld == inputs'.st[f]
                  was == inputs'.proto[f]
                  now == inputs'.reqs[j].start[f]
              IN  IF ~fld.exported \/ fld.name = "" THEN now = ZeroOf(fld.typ)
                  ELSE IF fld.typ = "time"
                       THEN now.inst = was.inst /\ now.off = was.off /\ now.ns = was.ns
                  ELSE now = was ]_vars

\* two requests were bound from a prototype with defaults; the handler of the
\* first changed its input, the input of the second and the prototype did not
\* change
C35_Witness ==
    /\ Len(inputs.reqs) = 2
    /\ inputs.proto[1] = 5
    /\ inputs.objs[1] = inputs.proto
    /\ inputs.objs[inputs.reqs[1].at][1] = 9
    /\ inputs.objs[inputs.reqs[2].at] = inputs.reqs[2].in
    /\ inputs.reqs[2].in[1] = 5
    /\ inputs.last = 1

\* C36 as stated -- In the input that a request bound from its query string
\* hands to the chain, every bindable field whose name is no key of the query
\* holds its zero value.
C36_AbsentIsZero ==
    \A j \in DOMAIN inputs.reqs : \A f \in DOMAIN inputs.st :
        (~Skipped(inputs.st[f]) /\ inputs.st[f].name \notin DOMAIN inputs.reqs[j].values)
        => inputs.reqs[j].in[f] = ZeroOf(inputs.st[f].typ)

\* What methodHandler.ServeHTTP does in place of C36: in the input that a
\* request bound from its query string hands to the chain, every bindable
\* field whose name is no key of the query holds the value it has in the
\* registered prototype (a time without its monotonic reading), which is its
\* zero value only when the prototype holds the zero value there.
C36_AbsentIsDefault ==
    \A j \in DOMAIN inputs.reqs : \A f \in DOMAIN inputs.st :
        (~Skipped(inputs.st[f]) /\ inputs.st[f].name \notin DOMAIN inputs.reqs[j].values)
        => LET was == inputs.proto[f]
               now == inputs.reqs[j].in[f]
           IN  /\ IF inputs.st[f].typ = "time"
                  THEN now.inst = was.inst /\ now.off = was.off /\ now.ns = was.ns
                  ELSE now = was
               /\ was = ZeroOf(inputs.st[f].typ) => now = ZeroOf(inputs.st[f].typ)

\* a request without the key a was bound from a prototype whose a is 5, and
\* its input holds 5 there; one from a zero prototype holds 0 (second witness)
C36_Witness ==
    \E j \in DOMAIN inputs.reqs :
        /\ "a" \notin DOMAIN inputs.reqs[j].values
        /\ "s" \in DOMAIN inputs.reqs[j].values
        /\ inputs.proto[1] = 5
        /\ inputs.reqs[j].in[1] = 5
        /\ inputs.reqs[j].in[2] = <<"y">>

C36_WitnessZero ==
    \E j \in DOMAIN inputs.reqs :
        /\ "a" \notin DOMAIN inputs.reqs[j].values
        /\ inputs.proto[1] = 0
        /\ inputs.reqs[j].in[1] = 0

\* C38 -- Once a request is bound and its chain was entered, ServeHTTP returns
\* normally only if send was called; when the whole chain has returned and
\* send was never called (a nil middleware or a nil handler included), it
\* panics with "send must be called" and the response writer is untouched:
\* no header, no status, no body.
C38_SendMustBeCalled ==
    [][ /\ (phase = "chain" /\ phase' = "done") => (sent = 1 /\ hist.sender # 0)
        /\ (phase = "chain" /\ stack = << >> /\ sent = 0 /\ phase' # phase)
              => /\ phase' = "panic"
                 /\ panicMsg' = "send must be called"
                 /\ w' = NewWriter
                 /\ errs' = << >>
                 /\ hist'.sendCalls = 0 ]_vars

\* a request whose registered handler is nil ended in the panic
C38_Witness ==
    /\ phase = "panic"
    /\ panicMsg = "send must be called"
    /\ cur # NilHandler
    /\ cur.do = Nil
    /\ w = NewWriter

\* a nil middleware in front of a handler: the handler never ran
C38_WitnessNilMiddleware ==
    /\ phase = "panic"
    /\ panicMsg = "send must be called"
    /\ cur # NilHandler
    /\ cur.do # Nil
    /\ Nil \in { MiddlewaresOf(cur.options)[i] : i \in DOMAIN MiddlewaresOf(cur.options) }
    /\ w = NewWriter

\* middlewares and handler ran and returned, none of them called send
C38_WitnessRan ==
    /\ phase = "panic"
    /\ panicMsg = "send must be called"
    /\ Cardinality(hist.ran) >= 2
    /\ w = NewWriter

\* the chain returned after a send and ServeHTTP returned normally
C38_WitnessSent ==
    /\ phase = "done"
    /\ cur # NilHandler
    /\ hist.sender # 0
    /\ sent = 1

\* C39 -- An error-output prototype given to Call by WithErrOut is the one of
\* that call: when the status of the response is not 200, the response is
\* JSON, the method is not HEAD, the prototype can be copied and the body
\* decodes, the error Call returns is the fresh copy of that prototype the
\* body was decoded into, which is also result.Out; and Call leaves the
\* options of the Caller as they were.
C39_PerCallErrOut ==
    [][ /\ client'.callers = client.callers \/ client'.calls = client.calls
        /\ \A k \in DOMAIN client'.calls :
              LET cl == client'.calls[k]
              IN  /\ cl.options = client'.callers[cl.caller].options
                  /\ ( /\ cl.step = "done"
                       /\ cl.result
                       /\ cl.resp.status # 200
                       /\ cl.callOptions.ErrOut # NilProto
                       /\ cl.resp.ct.media \in {"", "application/json"}
                       /\ cl.method # "HEAD"
                       /\ ~copyReflectValue(cl.callOptions.ErrOut).err
                       /\ DecodeBody(cl.resp.body, cl.callOptions.MaxResponseBodySize,
                                     copyReflectValue(cl.callOptions.ErrOut).elem) )
                     => /\ cl.err = [kind |-> "ErrOut",
                                     out |-> [proto |-> cl.callOptions.ErrOut,
                                              fresh |-> TRUE, decoded |-> TRUE]]
                        /\ cl.resultOut = cl.err.out ]_vars

\* no step of a call changes a Caller or the options of the Factory, whatever
\* options the call was given, and every call works with its Caller's options
C39_CallerOptionsKept ==
    [][ /\ client'.calls # client.calls
           => (client'.callers = client.callers /\ client'.factory = client.factory)
        /\ \A k \in DOMAIN client'.calls :
              client'.calls[k].options = client'.callers[client'.calls[k].caller].options ]_vars

\* a Caller without an error-output prototype was called with WithErrOut, the
\* answer was a 400 with a JSON body, and Call returned a nil error with the
\* body decoded into the output prototype
C39_ErrOutIgnored ==
    \E k \in DOMAIN client.calls :
        LET cl == client.calls[k]
        IN
            /\ cl.step = "done"
            /\ cl.result
            /\ cl.resp.status = 400
            /\ cl.options.ErrOut = NilProto
            /\ cl.callOptions.ErrOut = StructPtrProto
            /\ cl.err.kind = "none"
            /\ cl.resultOut.proto = cl.out
            /\ cl.resultOut.decoded

\* the options f with each field an option of given names set to the value of
\* the last such option
OverriddenBy(f, given) ==
    [k \in DOMAIN f |->
        LET named == {i \in DOMAIN given : given[i].name = k}
            last  == IF named = {} THEN 0 ELSE CHOOSE i \in named : \A j \in named : j <= i
            RECURSIVE Added(_)
            \* the values WithAdditionalRequestHeader options from the i-th on add
            Added(i) ==
                IF i > Len(given) THEN << >>
                ELSE (IF given[i].name = "AdditionalRequestHeader" THEN given[i].v ELSE << >>)
                     \o Added(i + 1)
            set == IF last = 0 THEN f[k] ELSE given[last].v
        IN  IF k = "RequestHeader" THEN set \o Added(last + 1) ELSE set]

\* C40 -- A call of Factory.Caller leaves the options of the Factory and the
\* options of every Caller the Factory created before as they were, and the
\* options of the Caller it creates are the options of the Factory with the
\* given options applied over them; so no Caller created later sees the
\* options given to an earlier one.
C40_CallerOptionsIsolated ==
    [][ /\ client'.factory = client.factory
        /\ \A i \in DOMAIN client.callers : client'.callers[i] = client.callers[i]
        /\ \A i \in DOMAIN client'.callers \ DOMAIN client.callers :
              client'.callers[i].options
                 = OverriddenBy(client.factory, client'.callers[i].given) ]_vars

\* a Factory with an error-output prototype created three Callers: the first
\* with force-body mode, the second without options, the third with another
\* prototype; the second has the options of the Factory, the others differ
\* from it in the field they were given
C40_Witness ==
    /\ Len(client.callers) = 3
    /\ client.factory.ErrOut = StructPtrProto
    /\ ~client.factory.ForceBody
    /\ client.callers[1].given = <<[name |-> "ForceBody", v |-> TRUE]>>
    /\ client.callers[1].options.ForceBody
    /\ client.callers[2].given = << >>
    /\ client.callers[2].options = client.factory
    /\ client.callers[3].given = <<[name |-> "ErrOut", v |-> StructProto]>>
    /\ client.callers[3].options.ErrOut = StructProto
    /\ ~client.callers[3].options.ForceBody

\* a call with a method that is not allowed panicked and created nothing
C40_WitnessPanic ==
    /\ client.step = "panic"
    /\ Len(client.callers) = 1
    /\ client.factory.ForceBody

====
